---- MODULE Spec2Model ----
(***************************************************************************)
(* ts-order: the Order step list (src/src/order.ts), its derived           *)
(* comparator, its decorate-sort-undecorate bulk sort and its composition  *)
(* operations, and the standalone comparator combinators by, order, when,  *)
(* nullsFirst and nullsLast (src/src/comparator/index.ts).                 *)
(*                                                                         *)
(* Specifications: SpecCompare (one call of the comparator), SpecSort (one *)
(* call of Order.sort), SpecBuild (building Orders), SpecComparator and    *)
(* SpecWrapped (one call of a standalone order(...)), SpecRaise (calls in  *)
(* which a caller-supplied function throws).                               *)
(*                                                                         *)
(* Caller-supplied functions (key selectors, comparators, predicates) are  *)
(* identified by name and given by tables over a small value universe.     *)
(* A step's key is a path of function names applied outermost first, and a *)
(* step's predicate is the list of its conjuncts in evaluation order; the  *)
(* empty list stands for "no predicate" (undefined).                       *)
(***************************************************************************)
EXTENDS Integers, Sequences, FiniteSets, TLC

(* ---------------------------- bounds ----------------------------------- *)
MaxElem == 3
MaxLen == 3
MaxSteps == 2
MaxOrders == 3
MaxBuildSteps == 2
MaxSources == 2

(* ---------------------------- values ----------------------------------- *)
\* the JavaScript value undefined, as an array element
Undef == -1
\* a key that the relational operators cannot order (NaN, undefined)
Incomparable == -1
\* a slot of a keys buffer that was never written
Hole == -2
\* the JavaScript value null, as an element; the caller-supplied functions
\* below treat it as they treat undefined
Null == -3
\* a key of type symbol: the relational operators throw a TypeError on it
Sym == -4

Elem == 0 .. (MaxElem - 1)
ElemU == Elem \cup {Undef}

\* x <= y in the place of x < y
JsLtOrEqual(x, y) == x >= 0 /\ y >= 0 /\ x <= y

\* x < y of the host: false as soon as one operand is NaN / undefined
JsLt(x, y) == x >= 0 /\ y >= 0 /\ x < y

\* x < y in the place of x > y
JsGtAsLt(x, y) == x >= 0 /\ y >= 0 /\ x < y

\* x > y of the host: false as soon as one operand is NaN / undefined
JsGt(x, y) == x >= 0 /\ y >= 0 /\ x > y

\* throws on undefined keys as well
RelationalRaisesOnUndefined(x, y) == x < 0 \/ y < 0

\* x < y, x > y of the host throw: an operand cannot be converted to a number
RelationalRaises(x, y) == x = Sym \/ y = Sym

(* ------------------ caller-supplied functions -------------------------- *)
KeyNames == {"half", "parity"}
CmpNames == {"none", "scaled", "always42"}
PredNames == {"pos"}
OuterNames == {"next"}
GuardNames == {"small", "even"}
NoPredicate == << >>
NoCompare == "none"

\* v => Math.floor(v / 2), v => v % 2, v => (v + 1) % 3: NaN on undefined
Fn(name, v) ==
  IF v < 0 THEN Incomparable
  ELSE IF name = "half" THEN v \div 2
  ELSE IF name = "parity" THEN v % 2
  ELSE IF name = "next" THEN (v + 1) % 3
  ELSE IF name = "tag" THEN (IF v = 0 THEN Sym ELSE v)
  ELSE v

\* v => v.rank throws on undefined
FnRaises(name, v) == name = "rank" /\ v < 0

\* a custom comparator: nulls-last numeric difference with a magnitude
\* other than 1, and the constant comparator of order.test.ts:160
CmpFn(name, x, y) ==
  IF name = "always42" THEN 42
  ELSE IF x < 0 /\ y < 0 THEN 0
  ELSE IF x < 0 THEN 7
  ELSE IF y < 0 THEN -7
  ELSE 7 * (x - y)

\* the comparator "exact", (x, y) => 7 * (x.valueOf() - y.valueOf()), throws
\* on an undefined key
CmpRaises(name, x, y) == name = "exact" /\ (x < 0 \/ y < 0)

\* v => v > 0, v => v < 2, v => v % 2 === 0 (false on undefined), and the
\* guards v => h(v) && g(v) made of two of them
PredFn(name, v) ==
  IF name = "pos" THEN v > 0
  ELSE IF name = "small" THEN v >= 0 /\ v < 2
  ELSE IF name = "even" THEN v >= 0 /\ v % 2 = 0
  ELSE IF name = "listed" THEN v > 0
  ELSE IF name = "small&&even" THEN (v >= 0 /\ v < 2) /\ (v >= 0 /\ v % 2 = 0)
  ELSE IF name = "even&&small" THEN (v >= 0 /\ v % 2 = 0) /\ (v >= 0 /\ v < 2)
  ELSE TRUE

\* v => v.listed > 0 throws on undefined
PredFnRaises(name, v) == name = "listed" /\ v < 0

RECURSIVE ApplyPath(_, _)
\* key: (t) => s.key(outer(t)): the path is applied outermost first
ApplyPath(path, v) ==
  IF path = << >> THEN v
  ELSE ApplyPath(Tail(path), Fn(Head(path), v))

\* one conjunct of a predicate: atom(outer...(v))
EvalConjunct(c, v) == PredFn(c.atom, ApplyPath(c.path, v))

RECURSIVE EvalPredicate(_, _)
\* step.predicate(value) && predicate(value), left to right
EvalPredicate(pred, v) ==
  IF pred = << >> THEN TRUE
  ELSE EvalConjunct(Head(pred), v) /\ EvalPredicate(Tail(pred), v)

RECURSIVE PathRaises(_, _)
\* the key (t) => s.key(outer(t)) throws: one of its functions does
PathRaises(path, v) ==
  path # << >>
    /\ (FnRaises(Head(path), v) \/ PathRaises(Tail(path), Fn(Head(path), v)))

RECURSIVE PredicateRaises(_, _)
\* the predicate throws: a conjunct that is evaluated does
PredicateRaises(pred, v) ==
  pred # << >>
    /\ \/ PathRaises(Head(pred).path, v)
       \/ PredFnRaises(Head(pred).atom, ApplyPath(Head(pred).path, v))
       \/ (EvalConjunct(Head(pred), v) /\ PredicateRaises(Tail(pred), v))

RECURSIVE ConjunctsEvaluated(_, _)
\* the conjuncts of step.predicate(value) && predicate(value) that are
\* evaluated, in order: && stops at the first one that is false
ConjunctsEvaluated(pred, v) ==
  IF pred = << >> THEN << >>
  ELSE IF EvalConjunct(Head(pred), v)
       THEN <<Head(pred).atom>> \o ConjunctsEvaluated(Tail(pred), v)
       ELSE <<Head(pred).atom>>

(* ------------------------------ steps ---------------------------------- *)
Atom(p) == << [path |-> << >>, atom |-> p] >>

\* the OrderStep record built by Order.by / Order#by from its options
MakeStep(k, dir, c, p) ==
  [key |-> << k >>, direction |-> dir, compare |-> c, predicate |-> p]

DirectionSign == {1, -1}

ByPredicates == {NoPredicate} \cup {Atom(p) : p \in PredNames}

\* every step a single by() call can create
ByStep == {MakeStep(k, d, c, p) :
             k \in KeyNames, d \in DirectionSign, c \in CmpNames,
             p \in ByPredicates}

(* --------------------- Order.compare (getter) -------------------------- *)
\* the predicate is never consulted
SkippedNever(s, a, b) == FALSE

\* skips the step only when the predicate fails for both elements
SkippedWhenBothFail(s, a, b) ==
  s.predicate # NoPredicate
    /\ (~EvalPredicate(s.predicate, a) /\ ~EvalPredicate(s.predicate, b))

\* p && (!p(a) || !p(b)): the step is skipped
Skipped(s, a, b) ==
  s.predicate # NoPredicate
    /\ (~EvalPredicate(s.predicate, a) \/ ~EvalPredicate(s.predicate, b))

\* applies the direction to the comparator's result without normalizing it
KeyOutcomeRaw(c, d, x, y) ==
  IF c # NoCompare THEN CmpFn(c, x, y) * d
  ELSE IF JsLt(x, y) THEN -d
  ELSE IF JsGt(x, y) THEN d
  ELSE 0

\* takes every step for an ascending one
KeyOutcomeIgnoresDirection(c, d, x, y) ==
  IF c # NoCompare
  THEN LET r == CmpFn(c, x, y)
       IN  IF r # 0 THEN (IF r > 0 THEN 1 ELSE -1) ELSE 0
  ELSE IF JsLt(x, y) THEN -1
  ELSE IF JsGt(x, y) THEN 1
  ELSE 0

\* the sign a step's comparison gives to two keys; 0 when it ties
KeyOutcome(c, d, x, y) ==
  IF c # NoCompare
  THEN LET r == CmpFn(c, x, y)
       IN  IF r # 0 THEN (IF r > 0 THEN d ELSE -d) ELSE 0
  ELSE IF JsLt(x, y) THEN -d
  ELSE IF JsGt(x, y) THEN d
  ELSE 0

\* one iteration of the loop of the comparator: the value it returns, or 0
\* when the loop goes on to the next step
StepOutcome(s, a, b) ==
  IF Skipped(s, a, b) THEN 0
  ELSE KeyOutcome(s.compare, s.direction,
                  ApplyPath(s.key, a), ApplyPath(s.key, b))

\* the caller-supplied functions one iteration invokes, in order
StepCalls(s, i, a, b) ==
  LET predCalls ==
        IF s.predicate = NoPredicate THEN << >>
        ELSE IF ~EvalPredicate(s.predicate, a) THEN << <<"predicate", i, a>> >>
        ELSE << <<"predicate", i, a>>, <<"predicate", i, b>> >>
      keyCalls ==
        IF Skipped(s, a, b) THEN << >>
        ELSE << <<"key", i, a>>, <<"key", i, b>> >>
      cmpCalls ==
        IF Skipped(s, a, b) \/ s.compare = NoCompare THEN << >>
        ELSE << <<"compare", i, a>> >>
  IN  predCalls \o keyCalls \o cmpCalls

\* the call of a caller-supplied function throws
CallRaises(s, e, a, b) ==
  IF e[1] = "predicate" THEN PredicateRaises(s.predicate, e[3])
  ELSE IF e[1] = "key" THEN PathRaises(s.key, e[3])
  ELSE CmpRaises(s.compare, ApplyPath(s.key, a), ApplyPath(s.key, b))

\* the first call of one iteration that throws (0: none does)
RaiseAt(s, i, a, b) ==
  LET calls == StepCalls(s, i, a, b)
      raising == {k \in 1 .. Len(calls) : CallRaises(s, calls[k], a, b)}
  IN  IF raising = {} THEN 0
      ELSE CHOOSE k \in raising : \A m \in raising : k <= m

\* x < y of one iteration throws
DefaultRaises(s, i, a, b) ==
  /\ RaiseAt(s, i, a, b) = 0
  /\ ~Skipped(s, a, b)
  /\ s.compare = NoCompare
  /\ RelationalRaises(ApplyPath(s.key, a), ApplyPath(s.key, b))

\* nothing the iteration runs throws
StepRaisesNever(s, i, a, b) == FALSE

\* one iteration of the loop of the comparator throws
StepRaises(s, i, a, b) ==
  RaiseAt(s, i, a, b) # 0 \/ DefaultRaises(s, i, a, b)

\* the functions one iteration invokes up to the one that throws; "<" is
\* the relational operator that throws
StepCallsUntilRaise(s, i, a, b) ==
  IF RaiseAt(s, i, a, b) # 0
  THEN SubSeq(StepCalls(s, i, a, b), 1, RaiseAt(s, i, a, b))
  ELSE StepCalls(s, i, a, b) \o << <<"<", i, a>> >>

RECURSIVE CompareFrom(_, _, _, _)
\* the loop of the comparator from step i on
CompareFrom(steps, i, a, b) ==
  IF i > Len(steps) THEN 0
  ELSE LET r == StepOutcome(steps[i], a, b)
       IN  IF r # 0 THEN r ELSE CompareFrom(steps, i + 1, a, b)

\* order.compare(a, b)
Compare(steps, a, b) ==
  IF Len(steps) = 0 THEN 0 ELSE CompareFrom(steps, 1, a, b)

\* a function given by a rule, tabulated once
Tabulate(f) == f @@ << >>

(* ------------------- the host's Array.prototype.sort ------------------- *)
\* The engines the library can run on. Both are stable sorts; on a
\* comparator that is not a consistent ordering their results differ, as
\* the language leaves that case to the implementation.
Engines == {"insertion", "merge"}

RECURSIVE BinarySearch(_, _, _, _, _)
\* binary insertion: the position of pivot in the sorted run a[left .. right-1]
BinarySearch(a, cmp, pivot, left, right) ==
  IF left >= right THEN left
  ELSE LET mid == left + ((right - left) \div 2)
       IN  IF cmp[<<pivot, a[mid]>>] < 0
           THEN BinarySearch(a, cmp, pivot, left, mid)
           ELSE BinarySearch(a, cmp, pivot, mid + 1, right)

RECURSIVE InsertionSortFromOverwriting(_, _, _)
\* writes the pivot over the entry at its position instead of shifting the
\* run up by one
InsertionSortFromOverwriting(a, cmp, start) ==
  IF start > Len(a) THEN a
  ELSE LET pivot == a[start]
           pos == BinarySearch(a, cmp, pivot, 1, start)
           moved == SubSeq(a, 1, pos - 1) \o <<pivot>>
                      \o SubSeq(a, pos + 1, Len(a))
       IN  InsertionSortFromOverwriting(moved, cmp, start + 1)

RECURSIVE InsertionSortFrom(_, _, _)
\* binary insertion sort of a, whose first start-1 entries are sorted
InsertionSortFrom(a, cmp, start) ==
  IF start > Len(a) THEN a
  ELSE LET pivot == a[start]
           pos == BinarySearch(a, cmp, pivot, 1, start)
           moved == SubSeq(a, 1, pos - 1) \o <<pivot>>
                      \o SubSeq(a, pos, start - 1)
                      \o SubSeq(a, start + 1, Len(a))
       IN  InsertionSortFrom(moved, cmp, start + 1)

RECURSIVE MergeRightWinsTies(_, _, _)
\* the right entry wins a tie
MergeRightWinsTies(l, r, cmp) ==
  IF l = << >> THEN r
  ELSE IF r = << >> THEN l
  ELSE IF cmp[<<Head(l), Head(r)>>] < 0
       THEN <<Head(l)>> \o MergeRightWinsTies(Tail(l), r, cmp)
       ELSE <<Head(r)>> \o MergeRightWinsTies(l, Tail(r), cmp)

RECURSIVE Merge(_, _, _)
\* stable merge of two sorted runs: the left entry wins a tie
Merge(l, r, cmp) ==
  IF l = << >> THEN r
  ELSE IF r = << >> THEN l
  ELSE IF cmp[<<Head(l), Head(r)>>] <= 0
       THEN <<Head(l)>> \o Merge(Tail(l), r, cmp)
       ELSE <<Head(r)>> \o Merge(l, Tail(r), cmp)

RECURSIVE MergePass(_, _, _)
\* one bottom-up pass: merge adjacent runs of the given width
MergePass(a, cmp, width) ==
  IF Len(a) <= width THEN a
  ELSE LET n == Len(a)
           hi == IF 2 * width < n THEN 2 * width ELSE n
       IN  Merge(SubSeq(a, 1, width), SubSeq(a, width + 1, hi), cmp)
             \o MergePass(SubSeq(a, hi + 1, n), cmp, width)

RECURSIVE MergeSortFrom(_, _, _)
\* bottom-up merge sort, runs of the given width being sorted
MergeSortFrom(a, cmp, width) ==
  IF width >= Len(a) THEN a
  ELSE MergeSortFrom(MergePass(a, cmp, width), cmp, 2 * width)

\* the engine's sort of a sequence without undefined entries
HostSort(eng, a, cmp) ==
  IF eng = "insertion" THEN InsertionSortFrom(a, cmp, 2)
  ELSE MergeSortFrom(a, cmp, 1)

RECURSIVE BinarySearchRaises(_, _, _, _, _, _)
\* a call of comparefn made by the binary search throws
BinarySearchRaises(a, cmp, raises, pivot, left, right) ==
  /\ left < right
  /\ LET mid == left + ((right - left) \div 2)
     IN  \/ raises[<<pivot, a[mid]>>]
         \/ IF cmp[<<pivot, a[mid]>>] < 0
            THEN BinarySearchRaises(a, cmp, raises, pivot, left, mid)
            ELSE BinarySearchRaises(a, cmp, raises, pivot, mid + 1, right)

RECURSIVE InsertionSortRaisesFrom(_, _, _, _)
\* a call of comparefn made by the binary insertion sort throws
InsertionSortRaisesFrom(a, cmp, raises, start) ==
  /\ start <= Len(a)
  /\ LET pivot == a[start]
         pos == BinarySearch(a, cmp, pivot, 1, start)
         moved == SubSeq(a, 1, pos - 1) \o <<pivot>>
                    \o SubSeq(a, pos, start - 1)
                    \o SubSeq(a, start + 1, Len(a))
     IN  \/ BinarySearchRaises(a, cmp, raises, pivot, 1, start)
         \/ InsertionSortRaisesFrom(moved, cmp, raises, start + 1)

RECURSIVE MergeRaises(_, _, _, _)
\* a call of comparefn made by the merge of two runs throws
MergeRaises(l, r, cmp, raises) ==
  /\ l # << >>
  /\ r # << >>
  /\ \/ raises[<<Head(l), Head(r)>>]
     \/ IF cmp[<<Head(l), Head(r)>>] <= 0
        THEN MergeRaises(Tail(l), r, cmp, raises)
        ELSE MergeRaises(l, Tail(r), cmp, raises)

RECURSIVE MergePassRaises(_, _, _, _)
\* a call of comparefn made by one bottom-up pass throws
MergePassRaises(a, cmp, raises, width) ==
  /\ Len(a) > width
  /\ LET n == Len(a)
         hi == IF 2 * width < n THEN 2 * width ELSE n
     IN  \/ MergeRaises(SubSeq(a, 1, width), SubSeq(a, width + 1, hi),
                        cmp, raises)
         \/ MergePassRaises(SubSeq(a, hi + 1, n), cmp, raises, width)

RECURSIVE MergeSortRaisesFrom(_, _, _, _)
\* a call of comparefn made by the bottom-up merge sort throws
MergeSortRaisesFrom(a, cmp, raises, width) ==
  /\ width < Len(a)
  /\ \/ MergePassRaises(a, cmp, raises, width)
     \/ MergeSortRaisesFrom(MergePass(a, cmp, width), cmp, raises, 2 * width)

\* a call of comparefn made by the engine throws: the sort is abandoned
\* with that exception (raises: the pairs on which comparefn throws; the
\* calls before the first one that throws return what cmp says)
HostSortRaises(eng, a, cmp, raises) ==
  IF eng = "insertion" THEN InsertionSortRaisesFrom(a, cmp, raises, 2)
  ELSE MergeSortRaisesFrom(a, cmp, raises, 1)

\* Array.prototype.sort(comparefn): undefined entries are not handed to
\* comparefn, they are moved behind every other entry
ArrayPrototypeSort(eng, a, cmp) ==
  LET defined == SelectSeq(a, LAMBDA v : v # Undef)
      sorted == HostSort(eng, defined, cmp)
  IN  sorted \o [i \in 1 .. (Len(a) - Len(defined)) |-> Undef]

(* -------------------------- Order.sort --------------------------------- *)
\* returns the array itself instead of a copy
SliceAlias(h, id) == [heap |-> h, ret |-> id]

\* array.slice(): a new array object with the same entries
Slice(h, id) == [heap |-> Append(h, h[id]), ret |-> Len(h) + 1]

\* return out: a new array object holding the materialized entries
ReturnOut(h, out) == [heap |-> Append(h, out), ret |-> Len(h) + 1]

\* computes the key of every element, whatever the predicate says
PrecomputeBuffersEager(step, array) ==
  LET n == Len(array)
  IN  [keys |-> [i \in 1 .. n |-> ApplyPath(step.key, array[i])],
       matches |-> IF step.predicate # NoPredicate
                   THEN [i \in 1 .. n |-> EvalPredicate(step.predicate, array[i])]
                   ELSE << >>,
       keyCalls |-> [i \in 1 .. n |-> 1],
       predCalls |-> [i \in 1 .. n |->
                        IF step.predicate # NoPredicate THEN 1 ELSE 0]]

\* computes the key of the elements the predicate rejects
PrecomputeBuffersInverted(step, array) ==
  LET n == Len(array)
      matches == [i \in 1 .. n |-> EvalPredicate(step.predicate, array[i])]
  IN  IF step.predicate # NoPredicate
      THEN [keys |-> [i \in 1 .. n |->
                        IF ~matches[i] THEN ApplyPath(step.key, array[i])
                        ELSE Hole],
            matches |-> matches,
            keyCalls |-> [i \in 1 .. n |-> IF ~matches[i] THEN 1 ELSE 0],
            predCalls |-> [i \in 1 .. n |-> 1]]
      ELSE [keys |-> [i \in 1 .. n |-> ApplyPath(step.key, array[i])],
            matches |-> << >>,
            keyCalls |-> [i \in 1 .. n |-> 1],
            predCalls |-> [i \in 1 .. n |-> 0]]

\* the keys and matches buffers of one step (the body of the loop over j)
PrecomputeBuffers(step, array) ==
  LET n == Len(array)
      predicate == step.predicate
  IN  IF predicate # NoPredicate
      THEN LET matches == [i \in 1 .. n |-> EvalPredicate(predicate, array[i])]
           IN  [keys |-> [i \in 1 .. n |->
                            IF matches[i] THEN ApplyPath(step.key, array[i])
                            ELSE Hole],
                matches |-> matches,
                keyCalls |-> [i \in 1 .. n |-> IF matches[i] THEN 1 ELSE 0],
                predCalls |-> [i \in 1 .. n |-> 1]]
      ELSE [keys |-> [i \in 1 .. n |-> ApplyPath(step.key, array[i])],
            matches |-> << >>,
            keyCalls |-> [i \in 1 .. n |-> 1],
            predCalls |-> [i \in 1 .. n |-> 0]]

\* reads the key slots without consulting the matches buffer
IndexStepOutcomeNoMatches(kj, matches, c, d, ia, ib) ==
  KeyOutcome(c, d, kj[ia], kj[ib])

\* goes on to the next step only when neither element matches
IndexStepOutcomeEitherMatches(kj, matches, c, d, ia, ib) ==
  IF matches # << >> /\ (~matches[ia] /\ ~matches[ib]) THEN 0
  ELSE KeyOutcome(c, d, kj[ia], kj[ib])

\* one iteration of the loop of the index comparator; 0 when it goes on
IndexStepOutcome(kj, matches, c, d, ia, ib) ==
  IF matches # << >> /\ (~matches[ia] \/ ~matches[ib]) THEN 0
  ELSE KeyOutcome(c, d, kj[ia], kj[ib])

RECURSIVE IndexCompareFrom(_, _, _, _, _, _)
\* the comparator handed to arrayIndexes.sort, from step j on
IndexCompareFrom(keys, matches, steps, j, ia, ib) ==
  IF j > Len(steps) THEN 0
  ELSE LET r == IndexStepOutcome(keys[j], matches[j], steps[j].compare,
                                 steps[j].direction, ia, ib)
       IN  IF r # 0 THEN r
           ELSE IndexCompareFrom(keys, matches, steps, j + 1, ia, ib)

\* the index comparator as a table over the index pairs
IndexComparator(keys, matches, steps, n) ==
  [p \in (1 .. n) \X (1 .. n) |->
     IndexCompareFrom(keys, matches, steps, 1, p[1], p[2])]

\* the position of the first element on which the predicate or the key of
\* the step throws (0: neither throws on any element)
PrecomputeRaiseAt(step, array) ==
  LET raising ==
        {i \in 1 .. Len(array) :
           \/ PredicateRaises(step.predicate, array[i])
           \/ /\ EvalPredicate(step.predicate, array[i])
              /\ PathRaises(step.key, array[i])}
  IN  IF raising = {} THEN 0
      ELSE CHOOSE i \in raising : \A m \in raising : i <= m

\* the calls the loop over i made when it was abandoned at position at
PrecomputeCallsUntil(step, array, at) ==
  [keyCalls |-> [i \in 1 .. Len(array) |->
                   IF /\ i <= at
                      /\ ~PredicateRaises(step.predicate, array[i])
                      /\ EvalPredicate(step.predicate, array[i])
                   THEN 1 ELSE 0],
   predCalls |-> [i \in 1 .. Len(array) |->
                    IF i <= at /\ step.predicate # NoPredicate THEN 1 ELSE 0]]

\* the comparison of one iteration of the index comparator throws
IndexStepRaises(kj, matches, c, ia, ib) ==
  /\ ~(matches # << >> /\ (~matches[ia] \/ ~matches[ib]))
  /\ IF c # NoCompare THEN CmpRaises(c, kj[ia], kj[ib])
     ELSE RelationalRaises(kj[ia], kj[ib])

RECURSIVE IndexCompareRaisesFrom(_, _, _, _, _, _)
\* the index comparator throws on (ia, ib), from step j on
IndexCompareRaisesFrom(keys, matches, steps, j, ia, ib) ==
  /\ j <= Len(steps)
  /\ \/ IndexStepRaises(keys[j], matches[j], steps[j].compare, ia, ib)
     \/ /\ IndexStepOutcome(keys[j], matches[j], steps[j].compare,
                            steps[j].direction, ia, ib) = 0
        /\ IndexCompareRaisesFrom(keys, matches, steps, j + 1, ia, ib)

\* arrayIndexes.sort(...) is abandoned by a comparison that throws
SortedIndexesRaises(eng, keys, matches, steps, n) ==
  HostSortRaises(eng, [i \in 1 .. n |-> i],
                 IndexComparator(keys, matches, steps, n),
                 [p \in (1 .. n) \X (1 .. n) |->
                    IndexCompareRaisesFrom(keys, matches, steps, 1, p[1], p[2])])

\* starts from the index array [n-1 .. 0]
SortedIndexesFromReversed(eng, keys, matches, steps, n) ==
  ArrayPrototypeSort(eng, [i \in 1 .. n |-> n + 1 - i],
                     IndexComparator(keys, matches, steps, n))

\* arrayIndexes after arrayIndexes.sort(...)
SortedIndexes(eng, keys, matches, steps, n) ==
  ArrayPrototypeSort(eng, [i \in 1 .. n |-> i],
                     IndexComparator(keys, matches, steps, n))

\* out[arrayIndexes[i]] = array[i]
MaterializeByPosition(array, indexes) ==
  [i \in 1 .. Len(array) |->
     array[CHOOSE k \in 1 .. Len(array) : indexes[k] = i]]

\* out[i] = array[arrayIndexes[i]]
Materialize(array, indexes) ==
  [i \in 1 .. Len(array) |-> array[indexes[i]]]

(* ---------------- construction and composition ----------------------- *)
\* The Order objects live in a heap: orders[id] is the _steps of object id.
\* Every operation maps the heap to the heap after it and the id it returns.

\* a new Order object whose _steps is the given list
Alloc(h, steps) == [orders |-> Append(h, steps), id |-> Len(h) + 1]

RECURSIVE PushSourcesUntilAbsent(_, _)
\* leaves the loop at the first absent or stepless entry
PushSourcesUntilAbsent(h, sources) ==
  IF sources = << >> THEN << >>
  ELSE LET s == Head(sources)
       IN  IF s = 0 \/ Len(h[s]) = 0 THEN << >>
           ELSE h[s] \o PushSourcesUntilAbsent(h, Tail(sources))

RECURSIVE PushSources(_, _)
\* the loop over an iterable of sources; 0 stands for null / undefined
PushSources(h, sources) ==
  IF sources = << >> THEN << >>
  ELSE LET s == Head(sources)
       IN  (IF s = 0 \/ Len(h[s]) = 0 THEN << >> ELSE h[s])
             \o PushSources(h, Tail(sources))

\* new Order(), new Order(null), new Order(undefined)
ConstructEmpty(h) == Alloc(h, << >>)

\* new Order(source)
ConstructCopy(h, source) ==
  IF Len(h[source]) = 0 THEN Alloc(h, << >>) ELSE Alloc(h, h[source])

\* new Order(sources)
ConstructMerge(h, sources) == Alloc(h, PushSources(h, sources))

\* Order.by(selectorFn, options)
StaticBy(h, step) == Alloc(h, << step >>)

\* pushes the step onto the receiver's own list and returns the receiver
InstByInPlace(h, this, step) ==
  [orders |-> [h EXCEPT ![this] = @ \o << step >>], id |-> this]

\* order.by(selectorFn, options)
InstBy(h, this, step) == Alloc(h, h[this] \o << step >>)

\* makes every step a descending one
StaticReverseDescending(h, input) ==
  IF Len(h[input]) = 0 THEN Alloc(h, << >>)
  ELSE Alloc(h, [i \in 1 .. Len(h[input]) |->
                   [key |-> h[input][i].key,
                    direction |-> -1,
                    compare |-> h[input][i].compare,
                    predicate |-> h[input][i].predicate]])

\* flips the directions and reverses the list of steps as well
StaticReverseStepsToo(h, input) ==
  IF Len(h[input]) = 0 THEN Alloc(h, << >>)
  ELSE LET n == Len(h[input])
       IN  Alloc(h, [i \in 1 .. n |->
                   [key |-> h[input][n + 1 - i].key,
                    direction |-> IF h[input][n + 1 - i].direction = 1
                                  THEN -1 ELSE 1,
                    compare |-> h[input][n + 1 - i].compare,
                    predicate |-> h[input][n + 1 - i].predicate]])

\* Order.reverse(input) and input.reverse()
StaticReverse(h, input) ==
  IF Len(h[input]) = 0 THEN Alloc(h, << >>)
  ELSE Alloc(h, [i \in 1 .. Len(h[input]) |->
                   [key |-> h[input][i].key,
                    direction |-> IF h[input][i].direction = 1 THEN -1 ELSE 1,
                    compare |-> h[input][i].compare,
                    predicate |-> h[input][i].predicate]])

\* (t) => s.predicate(outer(t)), conjunct by conjunct
LiftPredicate(outer, pred) ==
  [i \in 1 .. Len(pred) |->
     [path |-> << outer >> \o pred[i].path, atom |-> pred[i].atom]]

\* hands the parent element to the predicate of the sub-step
StaticMapPredicateOnParent(h, outer, sub) ==
  IF Len(h[sub]) = 0 THEN Alloc(h, << >>)
  ELSE Alloc(h, [i \in 1 .. Len(h[sub]) |->
                   [key |-> << outer >> \o h[sub][i].key,
                    direction |-> h[sub][i].direction,
                    compare |-> h[sub][i].compare,
                    predicate |-> h[sub][i].predicate]])

\* Order.map(outer, sub)
StaticMap(h, outer, sub) ==
  IF Len(h[sub]) = 0 THEN Alloc(h, << >>)
  ELSE Alloc(h, [i \in 1 .. Len(h[sub]) |->
                   [key |-> << outer >> \o h[sub][i].key,
                    direction |-> h[sub][i].direction,
                    compare |-> h[sub][i].compare,
                    predicate |->
                      IF h[sub][i].predicate # NoPredicate
                      THEN LiftPredicate(outer, h[sub][i].predicate)
                      ELSE NoPredicate]])

\* guards only the steps that have no predicate of their own
StaticWhenKeepsOwnPredicate(h, guard, input) ==
  IF Len(h[input]) = 0 THEN Alloc(h, << >>)
  ELSE Alloc(h, [i \in 1 .. Len(h[input]) |->
                   [key |-> h[input][i].key,
                    direction |-> h[input][i].direction,
                    compare |-> h[input][i].compare,
                    predicate |->
                      IF h[input][i].predicate # NoPredicate
                      THEN h[input][i].predicate
                      ELSE Atom(guard)]])

\* predicate(value) && step.predicate(value): the guard comes first
StaticWhenGuardFirst(h, guard, input) ==
  IF Len(h[input]) = 0 THEN Alloc(h, << >>)
  ELSE Alloc(h, [i \in 1 .. Len(h[input]) |->
                   [key |-> h[input][i].key,
                    direction |-> h[input][i].direction,
                    compare |-> h[input][i].compare,
                    predicate |->
                      IF h[input][i].predicate # NoPredicate
                      THEN Atom(guard) \o h[input][i].predicate
                      ELSE Atom(guard)]])

\* Order.when(predicate, input)
StaticWhen(h, guard, input) ==
  IF Len(h[input]) = 0 THEN Alloc(h, << >>)
  ELSE Alloc(h, [i \in 1 .. Len(h[input]) |->
                   [key |-> h[input][i].key,
                    direction |-> h[input][i].direction,
                    compare |-> h[input][i].compare,
                    predicate |->
                      IF h[input][i].predicate # NoPredicate
                      THEN h[input][i].predicate \o Atom(guard)
                      ELSE Atom(guard)]])

\* order.map(outer, sub)
InstMap(h, this, outer, sub) ==
  IF Len(h[this]) = 0 THEN StaticMap(h, outer, sub)
  ELSE LET mappedOrder == StaticMap(h, outer, sub)
       IN  Alloc(mappedOrder.orders,
                 h[this] \o mappedOrder.orders[mappedOrder.id])

\* guards the steps of the receiver as well
InstWhenGuardsReceiver(h, this, guard, input) ==
  LET guarded == StaticWhen(h, guard, input)
      both == StaticWhen(guarded.orders, guard, this)
  IN  IF Len(h[this]) = 0 THEN guarded
      ELSE Alloc(both.orders,
                 both.orders[both.id] \o guarded.orders[guarded.id])

\* order.when(predicate, order)
InstWhen(h, this, guard, input) ==
  LET guarded == StaticWhen(h, guard, input)
  IN  IF Len(h[this]) = 0 THEN guarded
      ELSE IF Len(guarded.orders[guarded.id]) = 0
           THEN ConstructCopy(guarded.orders, this)
           ELSE Alloc(guarded.orders,
                      h[this] \o guarded.orders[guarded.id])

(* ----------------------------- state ----------------------------------- *)
VARIABLES
  order,     \* _steps of the Order being compared with or sorted by
  ca, cb,    \* the arguments of the comparator call
  cpc,       \* position of the comparator call
  ci,        \* loop index of the comparator (1-based)
  cret,      \* value returned by the comparator
  clog,      \* caller-supplied functions invoked by the call, in order
  engine,    \* the host's sort algorithm
  heap,      \* the array objects; heap[1] is the caller's array
  ret,       \* the array object Order.sort returned (0: none yet)
  spc,       \* position of the Order.sort call
  sj,        \* loop index j of the precompute loop (1-based)
  keysPerStep,
  predicateMatchesPerStep,
  arrayIndexes,
  keyCalls,  \* per step and array position, invocations of the step's key
  predCalls, \* per step and array position, invocations of its predicate
  orders,    \* the Order objects: orders[id] is the _steps of object id
  result     \* the last composition: its name, arguments and returned id

cvars == <<ca, cb, cpc, ci, cret, clog>>
svars == <<engine, heap, ret, spc, sj, keysPerStep, predicateMatchesPerStep,
           arrayIndexes, keyCalls, predCalls>>
bvars == <<orders, result>>
vars == <<order, ca, cb, cpc, ci, cret, clog, engine, heap, ret, spc, sj,
          keysPerStep, predicateMatchesPerStep, arrayIndexes, keyCalls,
          predCalls, orders, result>>

RECURSIVE SeqsUpTo(_, _)
\* all sequences over S of length at most n
SeqsUpTo(S, n) ==
  IF n = 0 THEN {<< >>}
  ELSE LET shorter == SeqsUpTo(S, n - 1)
       IN  shorter \cup {Append(q, x) : q \in {r \in shorter : Len(r) = n - 1}, x \in S}

\* the step lists by() chains of at most MaxSteps calls build
ByOrders == SeqsUpTo(ByStep, MaxSteps)

\* args: the Order arguments of the call, the receiver first (0: absent);
\* fn: its function argument
NoResult == [op |-> "none", id |-> 0, args |-> << >>, fn |-> "none"]

\* no comparator call in progress
CompareIdle ==
  /\ ca = 0
  /\ cb = 0
  /\ cpc = "idle"
  /\ ci = 0
  /\ cret = 0
  /\ clog = << >>

\* no sort call in progress
SortIdle ==
  /\ engine = "insertion"
  /\ heap = << >>
  /\ ret = 0
  /\ spc = "idle"
  /\ sj = 0
  /\ keysPerStep = << >>
  /\ predicateMatchesPerStep = << >>
  /\ arrayIndexes = << >>
  /\ keyCalls = << >>
  /\ predCalls = << >>

\* no Order object built
BuildIdle ==
  /\ orders = << >>
  /\ result = NoResult

(* ---------------- the comparator call, step by step -------------------- *)
CompareInit ==
  /\ order \in ByOrders
  /\ ca \in ElemU
  /\ cb \in ElemU
  /\ cpc = "call"
  /\ ci = 0
  /\ cret = 0
  /\ clog = << >>
  /\ SortIdle
  /\ BuildIdle

\* if (numberOfSteps === 0) return () => 0
CompareNoSteps ==
  /\ cpc = "call"
  /\ Len(order) = 0
  /\ cpc' = "returned"
  /\ cret' = 0
  /\ UNCHANGED <<order, ca, cb, ci, clog>>
  /\ UNCHANGED <<svars, bvars>>

\* entering the loop of the returned comparator
CompareEnter ==
  /\ cpc = "call"
  /\ Len(order) # 0
  /\ cpc' = "loop"
  /\ ci' = 1
  /\ UNCHANGED <<order, ca, cb, cret, clog>>
  /\ UNCHANGED <<svars, bvars>>

\* one iteration that returns: r > 0 ? s.direction : -s.direction
CompareDecide ==
  /\ cpc = "loop"
  /\ ci <= Len(order)
  /\ ~StepRaises(order[ci], ci, ca, cb)
  /\ StepOutcome(order[ci], ca, cb) # 0
  /\ cret' = StepOutcome(order[ci], ca, cb)
  /\ clog' = clog \o StepCalls(order[ci], ci, ca, cb)
  /\ cpc' = "returned"
  /\ UNCHANGED <<order, ca, cb, ci>>
  /\ UNCHANGED <<svars, bvars>>

\* one iteration that continues or falls through to i++
CompareNext ==
  /\ cpc = "loop"
  /\ ci <= Len(order)
  /\ ~StepRaises(order[ci], ci, ca, cb)
  /\ StepOutcome(order[ci], ca, cb) = 0
  /\ clog' = clog \o StepCalls(order[ci], ci, ca, cb)
  /\ ci' = ci + 1
  /\ UNCHANGED <<order, ca, cb, cpc, cret>>
  /\ UNCHANGED <<svars, bvars>>

\* one iteration in which a predicate, a key, the comparator or the
\* relational operator throws: nothing catches it, the call is abandoned
CompareRaise ==
  /\ cpc = "loop"
  /\ ci <= Len(order)
  /\ StepRaises(order[ci], ci, ca, cb)
  /\ clog' = clog \o StepCallsUntilRaise(order[ci], ci, ca, cb)
  /\ cpc' = "thrown"
  /\ UNCHANGED <<order, ca, cb, ci, cret>>
  /\ UNCHANGED <<svars, bvars>>

\* the loop ran out of steps: return 0
CompareExhausted ==
  /\ cpc = "loop"
  /\ ci > Len(order)
  /\ cpc' = "returned"
  /\ cret' = 0
  /\ UNCHANGED <<order, ca, cb, ci, clog>>
  /\ UNCHANGED <<svars, bvars>>

CompareNextStep ==
  \/ CompareNoSteps
  \/ CompareEnter
  \/ CompareDecide
  \/ CompareNext
  \/ CompareExhausted

SpecCompare == CompareInit /\ [][CompareNextStep]_vars

(* ------------------- the Order.sort call, step by step ----------------- *)
\* the arrays a caller passes
Arrays == SeqsUpTo(ElemU, MaxLen)

\* the steps of the Orders sorted by: each key, direction and comparator,
\* with and without a predicate
SortStep ==
  {MakeStep("half", 1, NoCompare, NoPredicate),
   MakeStep("parity", -1, NoCompare, NoPredicate),
   MakeStep("half", -1, NoCompare, Atom("pos")),
   MakeStep("parity", 1, "scaled", Atom("pos")),
   MakeStep("half", -1, "scaled", NoPredicate),
   MakeStep("parity", 1, "always42", NoPredicate)}

\* the Orders sorted by: by() chains of at most MaxSteps calls
SortOrders == SeqsUpTo(SortStep, MaxSteps)

SortInit ==
  /\ order \in SortOrders
  /\ engine \in Engines
  /\ \E a \in Arrays : heap = <<a>>
  /\ ret = 0
  /\ spc = "call"
  /\ sj = 0
  /\ keysPerStep = << >>
  /\ predicateMatchesPerStep = << >>
  /\ arrayIndexes = << >>
  /\ keyCalls = << >>
  /\ predCalls = << >>
  /\ CompareIdle
  /\ BuildIdle

\* if (arrayLength <= 1) return array.slice()
SortShortArray ==
  /\ spc = "call"
  /\ Len(heap[1]) <= 1
  /\ heap' = Slice(heap, 1).heap
  /\ ret' = Slice(heap, 1).ret
  /\ spc' = "returned"
  /\ UNCHANGED <<order, engine, sj, keysPerStep, predicateMatchesPerStep,
                 arrayIndexes, keyCalls, predCalls>>
  /\ UNCHANGED <<cvars, bvars>>

\* if (steps.length === 0) return array.slice()
SortNoSteps ==
  /\ spc = "call"
  /\ Len(heap[1]) > 1
  /\ Len(order) = 0
  /\ heap' = Slice(heap, 1).heap
  /\ ret' = Slice(heap, 1).ret
  /\ spc' = "returned"
  /\ UNCHANGED <<order, engine, sj, keysPerStep, predicateMatchesPerStep,
                 arrayIndexes, keyCalls, predCalls>>
  /\ UNCHANGED <<cvars, bvars>>

\* keysPerStep = new Array(numberOfSteps), ...; j = 0
SortBegin ==
  /\ spc = "call"
  /\ Len(heap[1]) > 1
  /\ Len(order) # 0
  /\ spc' = "precompute"
  /\ sj' = 1
  /\ UNCHANGED <<order, engine, heap, ret, keysPerStep,
                 predicateMatchesPerStep, arrayIndexes, keyCalls, predCalls>>
  /\ UNCHANGED <<cvars, bvars>>

\* one iteration of the loop over j: the buffers of step j
SortPrecompute ==
  /\ spc = "precompute"
  /\ sj <= Len(order)
  /\ PrecomputeRaiseAt(order[sj], heap[1]) = 0
  /\ LET b == PrecomputeBuffers(order[sj], heap[1])
     IN  /\ keysPerStep' = Append(keysPerStep, b.keys)
         /\ predicateMatchesPerStep' = Append(predicateMatchesPerStep, b.matches)
         /\ keyCalls' = Append(keyCalls, b.keyCalls)
         /\ predCalls' = Append(predCalls, b.predCalls)
  /\ sj' = sj + 1
  /\ UNCHANGED <<order, engine, heap, ret, spc, arrayIndexes>>
  /\ UNCHANGED <<cvars, bvars>>

\* the iteration of the loop over j in which a predicate or a key throws:
\* nothing catches it, the call is abandoned
SortPrecomputeRaise ==
  /\ spc = "precompute"
  /\ sj <= Len(order)
  /\ PrecomputeRaiseAt(order[sj], heap[1]) # 0
  /\ LET b == PrecomputeCallsUntil(order[sj], heap[1],
                                   PrecomputeRaiseAt(order[sj], heap[1]))
     IN  /\ keyCalls' = Append(keyCalls, b.keyCalls)
         /\ predCalls' = Append(predCalls, b.predCalls)
  /\ spc' = "thrown"
  /\ UNCHANGED <<order, engine, heap, ret, sj, keysPerStep,
                 predicateMatchesPerStep, arrayIndexes>>
  /\ UNCHANGED <<cvars, bvars>>

\* arrayIndexes.sort(...) in which a comparison throws: the host abandons
\* the sort, nothing catches the exception, the call is abandoned
SortIndexesRaise ==
  /\ spc = "precompute"
  /\ sj > Len(order)
  /\ SortedIndexesRaises(engine, keysPerStep, predicateMatchesPerStep, order,
                         Len(heap[1]))
  /\ spc' = "thrown"
  /\ UNCHANGED <<order, engine, heap, ret, sj, keysPerStep,
                 predicateMatchesPerStep, arrayIndexes, keyCalls, predCalls>>
  /\ UNCHANGED <<cvars, bvars>>

\* arrayIndexes = [0 .. n-1]; arrayIndexes.sort(...)
SortIndexes ==
  /\ spc = "precompute"
  /\ sj > Len(order)
  /\ ~SortedIndexesRaises(engine, keysPerStep, predicateMatchesPerStep, order,
                          Len(heap[1]))
  /\ arrayIndexes' = SortedIndexes(engine, keysPerStep,
                                   predicateMatchesPerStep, order,
                                   Len(heap[1]))
  /\ spc' = "sorted"
  /\ UNCHANGED <<order, engine, heap, ret, sj, keysPerStep,
                 predicateMatchesPerStep, keyCalls, predCalls>>
  /\ UNCHANGED <<cvars, bvars>>

\* out[i] = array[arrayIndexes[i]]; return out
SortMaterialize ==
  /\ spc = "sorted"
  /\ heap' = ReturnOut(heap, Materialize(heap[1], arrayIndexes)).heap
  /\ ret' = ReturnOut(heap, Materialize(heap[1], arrayIndexes)).ret
  /\ spc' = "returned"
  /\ UNCHANGED <<order, engine, sj, keysPerStep, predicateMatchesPerStep,
                 arrayIndexes, keyCalls, predCalls>>
  /\ UNCHANGED <<cvars, bvars>>

SortNextStep ==
  \/ SortShortArray
  \/ SortNoSteps
  \/ SortBegin
  \/ SortPrecompute
  \/ SortIndexes
  \/ SortMaterialize

SpecSort == SortInit /\ [][SortNextStep]_vars

(* --------- calls with caller-supplied functions that throw ------------- *)
\* elements: three numbers and undefined
RaiseElem == {0, 1, 2, Undef}

\* steps whose key ("rank"), comparator ("exact") or predicate ("listed")
\* throws on undefined, a step whose key ("tag") is a symbol for the
\* element 0, and a step of which nothing throws
RaiseStep ==
  {MakeStep("rank", 1, NoCompare, NoPredicate),
   MakeStep("half", -1, "exact", NoPredicate),
   MakeStep("half", 1, NoCompare, Atom("listed")),
   MakeStep("tag", 1, NoCompare, NoPredicate),
   MakeStep("half", -1, NoCompare, Atom("pos"))}

RaiseOrders == SeqsUpTo(RaiseStep, MaxSteps)

\* o.compare(a, b)
RaiseCompareInit ==
  /\ order \in RaiseOrders
  /\ ca \in RaiseElem
  /\ cb \in RaiseElem
  /\ cpc = "call"
  /\ ci = 0
  /\ cret = 0
  /\ clog = << >>
  /\ SortIdle
  /\ BuildIdle

\* Order.sort(array, o)
RaiseSortInit ==
  /\ order \in RaiseOrders
  /\ engine \in Engines
  /\ \E a \in SeqsUpTo(RaiseElem, MaxLen) : heap = <<a>>
  /\ ret = 0
  /\ spc = "call"
  /\ sj = 0
  /\ keysPerStep = << >>
  /\ predicateMatchesPerStep = << >>
  /\ arrayIndexes = << >>
  /\ keyCalls = << >>
  /\ predCalls = << >>
  /\ CompareIdle
  /\ BuildIdle

RaiseInit == RaiseCompareInit \/ RaiseSortInit

RaiseNextStep ==
  \/ CompareNoSteps
  \/ CompareEnter
  \/ CompareDecide
  \/ CompareNext
  \/ CompareRaise
  \/ CompareExhausted
  \/ SortShortArray
  \/ SortNoSteps
  \/ SortBegin
  \/ SortPrecompute
  \/ SortPrecomputeRaise
  \/ SortIndexes
  \/ SortIndexesRaise
  \/ SortMaterialize

SpecRaise == RaiseInit /\ [][RaiseNextStep]_vars

(* ------------------- building Orders, call by call --------------------- *)
\* the options of the by() calls of the composition runs: the defaults,
\* a descending step with a custom comparator and a predicate, and a step
\* with the constant comparator
BuildStep ==
  {MakeStep(k, 1, NoCompare, NoPredicate) : k \in KeyNames}
    \cup {MakeStep("half", -1, "scaled", Atom("pos")),
          MakeStep("parity", 1, "always42", NoPredicate)}

BuildInit ==
  /\ orders = << >>
  /\ result = NoResult
  /\ order = << >>
  /\ CompareIdle
  /\ SortIdle

\* a call is made while fewer than MaxOrders objects exist, and returns an
\* Order of at most MaxBuildSteps steps
Within(r) ==
  /\ Len(orders) < MaxOrders
  /\ Len(r.orders[r.id]) <= MaxBuildSteps

Returns(op, args, fn, r) ==
  /\ Within(r)
  /\ orders' = r.orders
  /\ result' = [op |-> op, id |-> r.id, args |-> args, fn |-> fn]
  /\ UNCHANGED <<order, cvars, svars>>

Ids == 1 .. Len(orders)

DoConstructEmpty == Returns("new", << >>, "none", ConstructEmpty(orders))

DoConstructCopy ==
  \E source \in Ids : 
    Returns("copy", <<source>>, "none", ConstructCopy(orders, source))

DoConstructMerge ==
  \E sources \in SeqsUpTo(Ids \cup {0}, MaxSources) :
    Returns("merge", sources, "none", ConstructMerge(orders, sources))

DoStaticBy ==
  \E step \in BuildStep : 
    Returns("Order.by", << >>, "none", StaticBy(orders, step))

DoInstBy ==
  \E this \in Ids, step \in BuildStep :
    Returns("by", <<this>>, "none", InstBy(orders, this, step))

DoReverse ==
  \E input \in Ids : 
    Returns("reverse", <<input>>, "none", StaticReverse(orders, input))

DoStaticMap ==
  \E outer \in OuterNames, sub \in Ids :
    Returns("Order.map", <<sub>>, outer, StaticMap(orders, outer, sub))

DoStaticWhen ==
  \E guard \in GuardNames, input \in Ids :
    Returns("Order.when", <<input>>, guard,
            StaticWhen(orders, guard, input))

DoInstMap ==
  \E this \in Ids, outer \in OuterNames, sub \in Ids :
    Returns("map", <<this, sub>>, outer, InstMap(orders, this, outer, sub))

DoInstWhen ==
  \E this \in Ids, guard \in GuardNames, input \in Ids :
    Returns("when", <<this, input>>, guard,
            InstWhen(orders, this, guard, input))

BuildNextStep ==
  \/ DoConstructEmpty
  \/ DoConstructCopy
  \/ DoConstructMerge
  \/ DoStaticBy
  \/ DoInstBy
  \/ DoReverse
  \/ DoStaticMap
  \/ DoStaticWhen
  \/ DoInstMap
  \/ DoInstWhen

SpecBuild == BuildInit /\ [][BuildNextStep]_vars

(* ------- the standalone combinators (src/src/comparator/index.ts) ------ *)
\* compare(a, b): the relational operators of the host
ComparatorCompare(x, y) ==
  IF JsLt(x, y) THEN -1 ELSE IF JsGt(x, y) THEN 1 ELSE 0

\* compareFn = options?.compare ?? compare
CompareFnOf(c, x, y) ==
  IF c # NoCompare THEN CmpFn(c, x, y) ELSE ComparatorCompare(x, y)

\* calls compareFn with the arguments as they come
ComparatorReverseSameOrder(c, x, y) == CompareFnOf(c, x, y)

\* reverse(compareFn): (a, b) => compareFn(b, a)
ComparatorReverse(c, x, y) == CompareFnOf(c, y, x)

\* applies 'desc' by negating the result of compareFn
CompareFnWithDirectionNegated(c, d, x, y) ==
  IF d = 1 THEN CompareFnOf(c, x, y) ELSE -CompareFnOf(c, x, y)

\* direction === 'asc' ? compareFn : reverse(compareFn)
CompareFnWithDirection(c, d, x, y) ==
  IF d = 1 THEN CompareFnOf(c, x, y) ELSE ComparatorReverse(c, x, y)

\* by(key, options)(a, b); the options are held as a step record
ComparatorBy(s, a, b) ==
  IF s.predicate = NoPredicate
  THEN CompareFnWithDirection(s.compare, s.direction,
                              ApplyPath(s.key, a), ApplyPath(s.key, b))
  ELSE IF ~EvalPredicate(s.predicate, a) \/ ~EvalPredicate(s.predicate, b)
       THEN 0
       ELSE CompareFnWithDirection(s.compare, s.direction,
                                   ApplyPath(s.key, a), ApplyPath(s.key, b))

\* a == null of the host: null and undefined
Nullish(v) == v = Null \/ v = Undef

\* delegates when either value satisfies the predicate
ComparatorWhenEither(g, cmp, a, b) ==
  LET aMatch == PredFn(g, a)
      bMatch == PredFn(g, b)
  IN  IF aMatch \/ bMatch THEN ComparatorBy(cmp, a, b) ELSE 0

\* when(predicate, compareFn)(a, b), compareFn being a by(key, options)
ComparatorWhen(g, cmp, a, b) ==
  LET aMatch == PredFn(g, a)
      bMatch == PredFn(g, b)
  IN  IF aMatch /\ bMatch THEN ComparatorBy(cmp, a, b) ELSE 0

\* answers a pair with one nullish value as nullsLast does
ComparatorNullsFirstAsLast(cmp, a, b) ==
  IF Nullish(a) /\ Nullish(b) THEN 0
  ELSE IF Nullish(a) THEN 1
  ELSE IF Nullish(b) THEN -1
  ELSE ComparatorBy(cmp, a, b)

\* nullsFirst(compareFn)(a, b)
ComparatorNullsFirst(cmp, a, b) ==
  IF Nullish(a) /\ Nullish(b) THEN 0
  ELSE IF Nullish(a) THEN -1
  ELSE IF Nullish(b) THEN 1
  ELSE ComparatorBy(cmp, a, b)

\* nullsLast(compareFn)(a, b)
ComparatorNullsLast(cmp, a, b) ==
  IF Nullish(a) /\ Nullish(b) THEN 0
  ELSE IF Nullish(a) THEN 1
  ELSE IF Nullish(b) THEN -1
  ELSE ComparatorBy(cmp, a, b)

\* A comparator of the list handed to order(...) is a by(key, options),
\* held as its step record, or one wrapped by when, nullsFirst or nullsLast.
Wrapped(t) == "wrap" \in DOMAIN t

\* comparators[i](a, b)
ComparatorApply(t, a, b) ==
  IF ~Wrapped(t) THEN ComparatorBy(t, a, b)
  ELSE IF t.wrap = "when" THEN ComparatorWhen(t.guard, t.cmp, a, b)
  ELSE IF t.wrap = "nullsFirst" THEN ComparatorNullsFirst(t.cmp, a, b)
  ELSE ComparatorNullsLast(t.cmp, a, b)

\* the caller-supplied functions one by(key, options)(a, b) invokes, in order
ComparatorByCalls(s, i, a, b) ==
  IF s.predicate = NoPredicate
  THEN << <<"key", i, a>>, <<"key", i, b>>, <<"compare", i, a>> >>
  ELSE IF ~EvalPredicate(s.predicate, a) THEN << <<"predicate", i, a>> >>
  ELSE IF ~EvalPredicate(s.predicate, b)
       THEN << <<"predicate", i, a>>, <<"predicate", i, b>> >>
       ELSE << <<"predicate", i, a>>, <<"predicate", i, b>>,
               <<"key", i, a>>, <<"key", i, b>>, <<"compare", i, a>> >>

\* the functions comparators[i](a, b) invokes, in order; "cmp" is the call
\* of the wrapped comparator
ComparatorCalls(t, i, a, b) ==
  IF ~Wrapped(t) THEN ComparatorByCalls(t, i, a, b)
  ELSE IF t.wrap = "when"
       THEN << <<"guard", i, a>>, <<"guard", i, b>> >>
              \o (IF PredFn(t.guard, a) /\ PredFn(t.guard, b)
                  THEN << <<"cmp", i, a>> >> \o ComparatorByCalls(t.cmp, i, a, b)
                  ELSE << >>)
       ELSE IF Nullish(a) \/ Nullish(b) THEN << >>
            ELSE << <<"cmp", i, a>> >> \o ComparatorByCalls(t.cmp, i, a, b)

\* order(by(k1, o1), ..., by(kn, on))(a, b): the variable order holds the
\* key and the options of each by() in the list
ComparatorInit ==
  /\ order \in ByOrders
  /\ ca \in ElemU
  /\ cb \in ElemU
  /\ cpc = "loop"
  /\ ci = 1
  /\ cret = 0
  /\ clog = << >>
  /\ SortIdle
  /\ BuildIdle

\* returns the sign of r
OrderReturnNormalized ==
  /\ cpc = "loop"
  /\ ci <= Len(order)
  /\ ComparatorApply(order[ci], ca, cb) # 0
  /\ cret' = IF ComparatorApply(order[ci], ca, cb) > 0 THEN 1 ELSE -1
  /\ clog' = clog \o ComparatorCalls(order[ci], ci, ca, cb)
               \o << <<"return", ci, ComparatorApply(order[ci], ca, cb)>> >>
  /\ cpc' = "returned"
  /\ UNCHANGED <<order, ca, cb, ci>>
  /\ UNCHANGED <<svars, bvars>>

\* r = comparators[i](a, b); if (r !== 0) return r
OrderReturn ==
  /\ cpc = "loop"
  /\ ci <= Len(order)
  /\ ComparatorApply(order[ci], ca, cb) # 0
  /\ cret' = ComparatorApply(order[ci], ca, cb)
  /\ clog' = clog \o ComparatorCalls(order[ci], ci, ca, cb)
               \o << <<"return", ci, ComparatorApply(order[ci], ca, cb)>> >>
  /\ cpc' = "returned"
  /\ UNCHANGED <<order, ca, cb, ci>>
  /\ UNCHANGED <<svars, bvars>>

\* r === 0: i++
OrderContinue ==
  /\ cpc = "loop"
  /\ ci <= Len(order)
  /\ ComparatorApply(order[ci], ca, cb) = 0
  /\ clog' = clog \o ComparatorCalls(order[ci], ci, ca, cb)
               \o << <<"return", ci, 0>> >>
  /\ ci' = ci + 1
  /\ UNCHANGED <<order, ca, cb, cpc, cret>>
  /\ UNCHANGED <<svars, bvars>>

\* the loop ran out of comparators: return 0
OrderExhausted ==
  /\ cpc = "loop"
  /\ ci > Len(order)
  /\ cret' = 0
  /\ cpc' = "returned"
  /\ UNCHANGED <<order, ca, cb, ci, clog>>
  /\ UNCHANGED <<svars, bvars>>

ComparatorNextStep ==
  \/ OrderReturn
  \/ OrderContinue
  \/ OrderExhausted

SpecComparator == ComparatorInit /\ [][ComparatorNextStep]_vars

\* the comparators the wrappers are applied to, and the plain ones of the
\* lists: default and custom comparison, both directions, a predicate
WrapStep ==
  {MakeStep("half", 1, NoCompare, NoPredicate),
   MakeStep("parity", -1, "scaled", NoPredicate),
   MakeStep("half", 1, "always42", NoPredicate),
   MakeStep("parity", 1, NoCompare, Atom("pos"))}

WrapNames == {"when", "nullsFirst", "nullsLast"}

\* when(g, by(...)), nullsFirst(by(...)), nullsLast(by(...))
WrappedComparators ==
  {[wrap |-> "when", guard |-> g, cmp |-> s] : g \in GuardNames, s \in WrapStep}
    \cup {[wrap |-> w, guard |-> "none", cmp |-> s] :
            w \in WrapNames \ {"when"}, s \in WrapStep}

\* order(c1, ..., cn)(a, b) over wrapped and plain comparators, null being
\* one of the values
WrappedInit ==
  /\ order \in SeqsUpTo(WrappedComparators \cup WrapStep, MaxSteps)
  /\ ca \in ElemU \cup {Null}
  /\ cb \in ElemU \cup {Null}
  /\ cpc = "loop"
  /\ ci = 1
  /\ cret = 0
  /\ clog = << >>
  /\ SortIdle
  /\ BuildIdle

SpecWrapped == WrappedInit /\ [][ComparatorNextStep]_vars

(* ------------------------------ claims --------------------------------- *)
\* order.compare as the comparefn handed to the host's sort
CompareTable(steps) ==
  Tabulate([p \in ElemU \X ElemU |-> Compare(steps, p[1], p[2])])

Returned == spc = "returned"
NoUndefined(a) == \A i \in 1 .. Len(a) : a[i] # Undef

\* C1 (as stated): for every Order and every array, Order.sort returns the
\* sequence that sorting a copy of the array with the host's sort and
\* order.compare gives.
C1_SortEqualsNativeAnyArray ==
  Returned =>
    heap[ret] = ArrayPrototypeSort(engine, heap[1], CompareTable(order))

\* C1 (amended): for every Order and every array without undefined entries,
\* Order.sort returns the sequence that sorting a copy of the array with the
\* host's sort and order.compare gives.
C1_SortEqualsNative ==
  (Returned /\ NoUndefined(heap[1])) =>
    heap[ret] = ArrayPrototypeSort(engine, heap[1], CompareTable(order))

C1_Witness ==
  /\ Returned
  /\ NoUndefined(heap[1])
  /\ Len(order) = 2
  /\ order[1].predicate # NoPredicate
  /\ Len(heap[1]) = 3
  /\ heap[ret] # heap[1]
  /\ heap[ret] = ArrayPrototypeSort(engine, heap[1], CompareTable(order))

\* C2: Order.sort leaves the caller's array as it was and returns an array
\* object other than the caller's, also for arrays of length 0 or 1 and for
\* an Order without steps.
C2_InputUntouched ==
  [][heap'[1] = heap[1] /\ (spc' = "returned" => ret' # 1)]_vars

C2_Witness ==
  /\ Returned
  /\ Len(heap[1]) = 1
  /\ ret # 1
  /\ heap[ret] = heap[1]

\* C3: every composition (static and instance by, reverse, map, when, copy
\* and merge construction) leaves the steps of every existing Order as they
\* were and returns an Order object that did not exist before, so neither
\* the receiver nor an argument.
C3_OrdersImmutable ==
  [][/\ \A id \in 1 .. Len(orders) :
          id <= Len(orders') /\ orders'[id] = orders[id]
     /\ result'.id \notin 1 .. Len(orders)
     /\ result'.id \in 1 .. Len(orders')]_vars

C3_Witness ==
  /\ result.op = "by"
  /\ result.id = Len(orders)
  /\ LET this == result.args[1]
     IN  /\ Len(orders[this]) >= 1
         /\ Len(orders[result.id]) = Len(orders[this]) + 1
         /\ SubSeq(orders[result.id], 1, Len(orders[this])) = orders[this]

\* the step applies to the pair: no predicate, or it holds for both
Applicable(s, a, b) ==
  s.predicate = NoPredicate
    \/ (EvalPredicate(s.predicate, a) /\ EvalPredicate(s.predicate, b))

\* the result of a custom comparator on the keys of the pair
CustomResult(s, a, b) ==
  CmpFn(s.compare, ApplyPath(s.key, a), ApplyPath(s.key, b))

\* the sign a step gives the pair, 0 for a tie
StepSign(s, a, b) ==
  IF s.compare = NoCompare
  THEN IF JsLt(ApplyPath(s.key, a), ApplyPath(s.key, b)) THEN -s.direction
       ELSE IF JsGt(ApplyPath(s.key, a), ApplyPath(s.key, b)) THEN s.direction
       ELSE 0
  ELSE IF CustomResult(s, a, b) > 0 THEN s.direction
       ELSE IF CustomResult(s, a, b) < 0 THEN -s.direction
       ELSE 0

\* the steps that apply to the pair and do not tie
Deciders(steps, a, b) ==
  {i \in 1 .. Len(steps) :
     Applicable(steps[i], a, b) /\ StepSign(steps[i], a, b) # 0}

Min(S) == CHOOSE x \in S : \A y \in S : x <= y

CompareReturned == cpc = "returned"

\* C4: compare returns 0 without steps; otherwise the first step in list
\* order that applies and does not tie decides (-direction for a smaller
\* key, direction for a larger one), 0 is returned when no step decides,
\* and no step after the deciding one is evaluated.
C4_FirstDeciderWins ==
  CompareReturned =>
    LET D == Deciders(order, ca, cb)
    IN  /\ \A k \in 1 .. Len(clog), l \in 1 .. Len(clog) :
             k < l => clog[k][2] <= clog[l][2]
        /\ IF D = {}
           THEN cret = 0
           ELSE /\ cret = StepSign(order[Min(D)], ca, cb)
                /\ \A k \in 1 .. Len(clog) : clog[k][2] <= Min(D)

C4_Witness ==
  /\ CompareReturned
  /\ Len(order) = 2
  /\ order[1].compare = NoCompare
  /\ order[2].compare = NoCompare
  /\ Deciders(order, ca, cb) = {2}
  /\ cret = -order[2].direction
  /\ clog # << >>

\* C5: with a custom comparator only the sign of its result r counts:
\* r > 0 gives the step's direction, r < 0 its negation, r = 0 goes on to
\* the next step; every value compare returns is -1, 0 or 1.
C5_SignNormalized ==
  CompareReturned =>
    /\ cret \in {-1, 0, 1}
    /\ \A i \in 1 .. Len(order) :
         (order[i].compare # NoCompare /\ Applicable(order[i], ca, cb)
            /\ \A j \in 1 .. (i - 1) :
                 ~Applicable(order[j], ca, cb)
                   \/ StepSign(order[j], ca, cb) = 0)
         => LET r == CustomResult(order[i], ca, cb)
            IN  /\ r > 0 => cret = order[i].direction
                /\ r < 0 => cret = -order[i].direction
                /\ r = 0 => cret = Compare(SubSeq(order, i + 1, Len(order)),
                                           ca, cb)

C5_Witness ==
  /\ CompareReturned
  /\ Len(order) = 1
  /\ order[1].compare = "scaled"
  /\ order[1].direction = -1
  /\ CustomResult(order[1], ca, cb) = -7
  /\ cret = 1

Sign(r) == IF r > 0 THEN 1 ELSE IF r < 0 THEN -1 ELSE 0

\* the values the key functions produce
KeyValues == {ApplyPath(<<k>>, v) : k \in KeyNames, v \in ElemU}

\* a guarding predicate holds for one element of the pair only
AsymmetricGuard(steps, a, b) ==
  \E i \in 1 .. Len(steps) :
    steps[i].predicate # NoPredicate
      /\ EvalPredicate(steps[i].predicate, a)
           # EvalPredicate(steps[i].predicate, b)

\* every custom comparator of the Order answers a swapped pair of keys
\* with the opposite sign
AntisymmetricComparators(steps) ==
  \A i \in 1 .. Len(steps) :
    steps[i].compare # NoCompare =>
      \A x \in KeyValues, y \in KeyValues :
        Sign(CmpFn(steps[i].compare, x, y))
          = -Sign(CmpFn(steps[i].compare, y, x))

\* C6 (as stated): for every Order, custom comparators included, and every
\* pair without an asymmetric guard, compare(a, b) = -compare(b, a).
C6_AntisymmetricAnyComparator ==
  (CompareReturned /\ ~AsymmetricGuard(order, ca, cb)) =>
    cret = -Compare(order, cb, ca)

\* C6 (amended): for every Order whose custom comparators answer a swapped
\* pair of keys with the opposite sign, and every pair without an
\* asymmetric guard, compare(a, b) = -compare(b, a).
C6_Antisymmetric ==
  (CompareReturned /\ ~AsymmetricGuard(order, ca, cb)
     /\ AntisymmetricComparators(order)) =>
    cret = -Compare(order, cb, ca)

C6_Witness ==
  /\ CompareReturned
  /\ ~AsymmetricGuard(order, ca, cb)
  /\ AntisymmetricComparators(order)
  /\ Len(order) = 2
  /\ order[1].compare = "scaled"
  /\ order[1].predicate # NoPredicate
  /\ cret = 1
  /\ Compare(order, cb, ca) = -1

\* every custom comparator of the Order returns 0 on two identical keys
ReflexiveComparators(steps) ==
  \A i \in 1 .. Len(steps) :
    steps[i].compare # NoCompare =>
      \A x \in KeyValues : CmpFn(steps[i].compare, x, x) = 0

\* C7 (as stated): for every Order, custom comparators included, and every
\* element a, compare(a, a) = 0.
C7_ReflexiveAnyComparator ==
  (CompareReturned /\ ca = cb) => cret = 0

\* C7 (amended): for every Order whose custom comparators return 0 on two
\* identical keys, and every element a, compare(a, a) = 0.
C7_Reflexive ==
  (CompareReturned /\ ca = cb /\ ReflexiveComparators(order)) => cret = 0

C7_Witness ==
  /\ CompareReturned
  /\ ca = cb
  /\ ReflexiveComparators(order)
  /\ Len(order) = 2
  /\ order[1].compare = "scaled"
  /\ Applicable(order[1], ca, cb)
  /\ ci = 3
  /\ cret = 0

RECURSIVE SumTo(_, _)
SumTo(f, n) == IF n = 0 THEN 0 ELSE f[n] + SumTo(f, n - 1)

\* invocations of the key of step j during the call (none before the
\* precompute loop reaches the step)
KeyCallsOfStep(j) ==
  IF j \in DOMAIN keyCalls THEN keyCalls[j] ELSE [i \in 1 .. Len(heap[1]) |-> 0]

\* the array positions whose element fails the predicate of step j
Rejected(j) ==
  {i \in 1 .. Len(heap[1]) :
     order[j].predicate # NoPredicate
       /\ ~EvalPredicate(order[j].predicate, heap[1][i])}

SinglePredicateStep == Len(order) = 1 /\ order[1].predicate # NoPredicate

\* C8 (as stated): for a single step with a predicate and an array of n
\* elements of which k fail it, one Order.sort call invokes the key exactly
\* n - k times, never for an element that fails.
C8_KeyBudgetAnyLength ==
  (Returned /\ SinglePredicateStep) =>
    /\ SumTo(KeyCallsOfStep(1), Len(heap[1]))
         = Len(heap[1]) - Cardinality(Rejected(1))
    /\ \A i \in Rejected(1) : KeyCallsOfStep(1)[i] = 0

\* C8 (amended): for a single step with a predicate and an array of n >= 2
\* elements of which k fail it, one Order.sort call invokes the key exactly
\* n - k times, never for an element that fails; for n <= 1 the key is not
\* invoked at all.
C8_KeyBudget ==
  (Returned /\ SinglePredicateStep) =>
    /\ SumTo(KeyCallsOfStep(1), Len(heap[1]))
         = IF Len(heap[1]) >= 2
           THEN Len(heap[1]) - Cardinality(Rejected(1))
           ELSE 0
    /\ \A i \in Rejected(1) : KeyCallsOfStep(1)[i] = 0

C8_Witness ==
  /\ Returned
  /\ SinglePredicateStep
  /\ Len(heap[1]) = 3
  /\ Cardinality(Rejected(1)) = 1
  /\ SumTo(KeyCallsOfStep(1), 3) = 2

\* the index sort has started, or the call is past it
SortStarted ==
  \/ spc \in {"sorted", "returned"}
  \/ spc = "precompute" /\ sj > Len(order)

\* C9: during one Order.sort call a step's key is invoked at most once per
\* array position and never for an element its predicate rejects, and no
\* key or predicate is invoked once the index sort has started.
C9_KeysOncePerElementBeforeSort ==
  [][/\ \A j \in DOMAIN keyCalls' :
          /\ \A i \in 1 .. Len(heap[1]) : keyCalls'[j][i] <= 1
          /\ \A i \in Rejected(j) : keyCalls'[j][i] = 0
     /\ SortStarted => (keyCalls' = keyCalls /\ predCalls' = predCalls)]_vars

C9_Witness ==
  /\ spc = "sorted"
  /\ Len(order) = 2
  /\ Rejected(1) # {}
  /\ \A i \in Rejected(1) : keyCalls[1][i] = 0
  /\ \A i \in 1 .. Len(heap[1]) : keyCalls[2][i] = 1
  /\ arrayIndexes # [i \in 1 .. Len(heap[1]) |-> i]

\* the permutation of the input positions the call returned
ReturnedPositions ==
  IF arrayIndexes = << >> THEN [i \in 1 .. Len(heap[1]) |-> i]
  ELSE arrayIndexes

PositionOf(perm, i) == CHOOSE k \in 1 .. Len(perm) : perm[k] = i

\* compare(arr[i], arr[j]) = 0 for input positions i < j implies that the
\* element from i comes before the element from j in the returned array
StableReturn ==
  /\ heap[ret] = Materialize(heap[1], ReturnedPositions)
  /\ \A i \in 1 .. Len(heap[1]), j \in 1 .. Len(heap[1]) :
       (i < j /\ Compare(order, heap[1][i], heap[1][j]) = 0)
         => PositionOf(ReturnedPositions, i) < PositionOf(ReturnedPositions, j)

\* compare is a consistent ordering of the elements of a: reflexive,
\* antisymmetric, with transitive ties and transitive precedence
ConsistentOn(steps, a) ==
  LET S == {a[i] : i \in 1 .. Len(a)}
      c == Tabulate([p \in S \X S |-> Compare(steps, p[1], p[2])])
  IN  /\ \A x \in S : c[<<x, x>>] = 0
      /\ \A x \in S, y \in S : c[<<x, y>>] = -c[<<y, x>>]
      /\ \A x \in S, y \in S, z \in S :
           /\ (c[<<x, y>>] = 0 /\ c[<<y, z>>] = 0) => c[<<x, z>>] = 0
           /\ (c[<<x, y>>] < 0 /\ c[<<y, z>>] < 0) => c[<<x, z>>] < 0
           /\ (c[<<x, y>>] = 0 /\ c[<<y, z>>] < 0) => c[<<x, z>>] < 0
           /\ (c[<<x, y>>] < 0 /\ c[<<y, z>>] = 0) => c[<<x, z>>] < 0

MatchingPositions(step) ==
  SelectSeq(ReturnedPositions,
            LAMBDA i : EvalPredicate(step.predicate, heap[1][i]))

\* the returned positions whose input element fails the predicate
FailingPositions(step) ==
  SelectSeq(ReturnedPositions,
            LAMBDA i : ~EvalPredicate(step.predicate, heap[1][i]))

\* the elements at the positions come in the order of their keys:
\* non-decreasing for an ascending step, non-increasing for a descending one
KeysInOrder(step, positions) ==
  \A p \in 1 .. Len(positions), q \in 1 .. Len(positions) :
    p < q =>
      step.direction * (ApplyPath(step.key, heap[1][positions[p]])
                          - ApplyPath(step.key, heap[1][positions[q]])) <= 0

\* the positions are in their original relative order
Increasing(positions) ==
  \A p \in 1 .. Len(positions), q \in 1 .. Len(positions) :
    p < q => positions[p] < positions[q]

DefaultSteps(steps) ==
  \A i \in 1 .. Len(steps) :
    steps[i].predicate = NoPredicate /\ steps[i].compare = NoCompare

\* a comes no later than b in the lexicographic order of the keys of the
\* steps, each with its direction
LexNotAfter(steps, a, b) ==
  \/ \A i \in 1 .. Len(steps) :
       ApplyPath(steps[i].key, a) = ApplyPath(steps[i].key, b)
  \/ \E i \in 1 .. Len(steps) :
       /\ \A j \in 1 .. (i - 1) :
            ApplyPath(steps[j].key, a) = ApplyPath(steps[j].key, b)
       /\ steps[i].direction
            * (ApplyPath(steps[i].key, a) - ApplyPath(steps[i].key, b)) < 0

\* C12: for an Order whose steps have no predicate and use the default
\* comparison, and an array whose keys are totally ordered, Order.sort
\* returns a permutation of the input in which every adjacent pair is in
\* the lexicographic order of the step keys with the directions applied,
\* which is compare(out[i], out[i+1]) <= 0.
C12_LexicographicOutput ==
  (Returned /\ DefaultSteps(order) /\ NoUndefined(heap[1])) =>
    /\ heap[ret] = Materialize(heap[1], ReturnedPositions)
    /\ {ReturnedPositions[i] : i \in 1 .. Len(heap[1])} = 1 .. Len(heap[1])
    /\ \A i \in 1 .. (Len(heap[1]) - 1) :
         /\ LexNotAfter(order, heap[ret][i], heap[ret][i + 1])
         /\ Compare(order, heap[ret][i], heap[ret][i + 1]) <= 0

C12_Witness ==
  /\ Returned
  /\ DefaultSteps(order)
  /\ NoUndefined(heap[1])
  /\ Len(order) = 2
  /\ Len(heap[1]) = 3
  /\ arrayIndexes = <<3, 2, 1>>
  /\ ApplyPath(order[1].key, heap[ret][1]) = ApplyPath(order[1].key, heap[ret][2])
  /\ ApplyPath(order[2].key, heap[ret][1]) # ApplyPath(order[2].key, heap[ret][2])
  /\ ApplyPath(order[1].key, heap[ret][2]) # ApplyPath(order[1].key, heap[ret][3])

\* the _steps of the Order a call returned
StepsOf(r) == r.orders[r.id]

\* the compare of the two step lists agrees on every pair of elements
SameCompare(s, t) ==
  \A a \in ElemU, b \in ElemU : Compare(s, a, b) = Compare(t, a, b)

\* C13: reversing the reverse of an Order gives an Order whose compare
\* agrees with the Order's on every pair; reversing an empty Order gives an
\* empty Order.
C13_ReverseInvolution ==
  result.op = "reverse" =>
    LET input == result.args[1]
    IN  /\ orders[input] = << >> => orders[result.id] = << >>
        /\ \A o \in Ids :
             orders[input] = StepsOf(StaticReverse(orders, o))
               => SameCompare(orders[result.id], orders[o])

C13_Witness ==
  /\ result.op = "reverse"
  /\ \E o \in Ids \ {result.id, result.args[1]} :
       /\ orders[result.args[1]] = StepsOf(StaticReverse(orders, o))
       /\ orders[result.args[1]] # orders[o]
       /\ orders[o][1].compare # NoCompare
       /\ orders[o][1].predicate # NoPredicate
       /\ \E a \in ElemU, b \in ElemU :
            /\ Compare(orders[o], a, b) = 1
            /\ Compare(orders[result.args[1]], a, b) = -1
            /\ Compare(orders[result.id], a, b) = 1

\* C14: Order.reverse keeps the key, the comparator and the predicate of
\* every step and flips its direction, and the compare of the reversed
\* Order is the negation of the Order's compare on every pair.
C14_ReverseNegates ==
  result.op = "reverse" =>
    LET input == orders[result.args[1]]
        reversed == orders[result.id]
    IN  /\ Len(reversed) = Len(input)
        /\ \A i \in 1 .. Len(input) :
             /\ reversed[i].key = input[i].key
             /\ reversed[i].compare = input[i].compare
             /\ reversed[i].predicate = input[i].predicate
             /\ reversed[i].direction = -input[i].direction
        /\ \A a \in ElemU, b \in ElemU :
             Compare(reversed, a, b) = -Compare(input, a, b)

C14_Witness ==
  /\ result.op = "reverse"
  /\ Len(orders[result.args[1]]) = 2
  /\ orders[result.args[1]][1].compare = NoCompare
  /\ orders[result.args[1]][2].compare = "always42"
  /\ \E a \in ElemU, b \in ElemU :
       /\ StepOutcome(orders[result.args[1]][1], a, b) = 0
       /\ Compare(orders[result.args[1]], a, b) = 1
       /\ Compare(orders[result.args[1]], b, a) = 1
       /\ Compare(orders[result.id], a, b) = -1

\* the guard is not satisfied by both elements of the pair
FailsGuard(g, a, b) == ~PredFn(g, a) \/ ~PredFn(g, b)

\* evaluating the steps on the pair invokes a key function
KeyInvoked(steps, a, b) ==
  \E i \in 1 .. Len(steps) :
    \E k \in 1 .. Len(StepCalls(steps[i], i, a, b)) :
      StepCalls(steps[i], i, a, b)[k][1] = "key"

\* C15: Order.when(guard, inner) has the steps of inner in the same order
\* with the same key, direction and comparator, each with the predicate
\* "the step's own predicate, if any, and the guard"; its compare returns 0
\* without invoking a key function for every pair in which an element
\* fails the guard, and it has no steps when inner has none.
C15_WhenGuards ==
  result.op = "Order.when" =>
    LET inner == orders[result.args[1]]
        guarded == orders[result.id]
        guard == result.fn
    IN  /\ Len(guarded) = Len(inner)
        /\ \A i \in 1 .. Len(inner) :
             /\ guarded[i].key = inner[i].key
             /\ guarded[i].direction = inner[i].direction
             /\ guarded[i].compare = inner[i].compare
             /\ guarded[i].predicate # NoPredicate
             /\ \A v \in ElemU :
                  EvalPredicate(guarded[i].predicate, v)
                    = (EvalPredicate(inner[i].predicate, v) /\ PredFn(guard, v))
        /\ \A a \in ElemU, b \in ElemU :
             IF FailsGuard(guard, a, b)
             THEN Compare(guarded, a, b) = 0 /\ ~KeyInvoked(guarded, a, b)
             ELSE Compare(guarded, a, b) = Compare(inner, a, b)

C15_Witness ==
  /\ result.op = "Order.when"
  /\ Len(orders[result.args[1]]) = 2
  /\ orders[result.args[1]][1].predicate # NoPredicate
  /\ orders[result.args[1]][2].predicate = NoPredicate
  /\ \E a \in ElemU, b \in ElemU :
       /\ FailsGuard(result.fn, a, b)
       /\ StepOutcome(orders[result.args[1]][1], a, b) # 0
       /\ Compare(orders[result.id], a, b) = 0
  /\ \E a \in ElemU, b \in ElemU :
       /\ ~FailsGuard(result.fn, a, b)
       /\ Compare(orders[result.id], a, b) # 0

\* appended is the receiver's steps followed by the steps of the static
\* form: the receiver decides first, whatever the appended steps say
AppendsTo(this, static, appended) ==
  /\ appended = this \o static
  /\ this = << >> => appended = static
  /\ static = << >> => SameCompare(appended, this)
  /\ \A a \in ElemU, b \in ElemU :
       Compare(appended, a, b) =
         IF Compare(this, a, b) # 0 THEN Compare(this, a, b)
         ELSE Compare(static, a, b)

\* C16: x.when(g, inner) has the steps of x followed by those of
\* Order.when(g, inner), and x.map(f, sub) the steps of x followed by those
\* of Order.map(f, sub); the receiver's steps decide first and whatever the
\* guard says, an empty receiver gives the static form, and an empty
\* appended segment gives an Order that compares as the receiver.
C16_InstanceAppends ==
  /\ result.op = "when" =>
       AppendsTo(orders[result.args[1]],
                 StepsOf(StaticWhen(orders, result.fn, result.args[2])),
                 orders[result.id])
  /\ result.op = "map" =>
       AppendsTo(orders[result.args[1]],
                 StepsOf(StaticMap(orders, result.fn, result.args[2])),
                 orders[result.id])

C16_Witness ==
  /\ result.op = "when"
  /\ Len(orders[result.args[1]]) = 1
  /\ Len(orders[result.args[2]]) = 1
  /\ Len(orders[result.id]) = 2
  /\ \E a \in ElemU, b \in ElemU :
       /\ FailsGuard(result.fn, a, b)
       /\ Compare(orders[result.args[1]], a, b) # 0
       /\ Compare(orders[result.id], a, b) = Compare(orders[result.args[1]], a, b)
  /\ \E a \in ElemU, b \in ElemU :
       /\ Compare(orders[result.args[1]], a, b) = 0
       /\ Compare(orders[result.id], a, b) # 0

\* C17: Order.map(outer, sub) has one step per step of sub, with the same
\* direction and comparator, the key and the predicate of the sub-step
\* applied to outer(parent), and no predicate where the sub-step has none;
\* its compare on a, b is sub's compare on outer(a), outer(b); it has no
\* steps when sub has none.
C17_MapProjects ==
  result.op = "Order.map" =>
    LET sub == orders[result.args[1]]
        mapped == orders[result.id]
        outer == result.fn
    IN  /\ Len(mapped) = Len(sub)
        /\ \A i \in 1 .. Len(sub) :
             /\ mapped[i].direction = sub[i].direction
             /\ mapped[i].compare = sub[i].compare
             /\ (mapped[i].predicate = NoPredicate)
                  = (sub[i].predicate = NoPredicate)
             /\ \A v \in ElemU :
                  /\ ApplyPath(mapped[i].key, v)
                       = ApplyPath(sub[i].key, Fn(outer, v))
                  /\ EvalPredicate(mapped[i].predicate, v)
                       = EvalPredicate(sub[i].predicate, Fn(outer, v))
        /\ \A a \in ElemU, b \in ElemU :
             Compare(mapped, a, b) = Compare(sub, Fn(outer, a), Fn(outer, b))

C17_Witness ==
  /\ result.op = "Order.map"
  /\ Len(orders[result.args[1]]) = 2
  /\ orders[result.args[1]][1].predicate # NoPredicate
  /\ orders[result.args[1]][2].predicate = NoPredicate
  /\ \E a \in ElemU, b \in ElemU :
       /\ Compare(orders[result.id], a, b) # 0
       /\ Compare(orders[result.id], a, b) # Compare(orders[result.args[1]], a, b)
  /\ \E v \in ElemU :
       EvalPredicate(orders[result.id][1].predicate, v)
         # EvalPredicate(orders[result.args[1]][1].predicate, v)

\* the number of steps source k contributes
Contribution(sources, k) ==
  IF sources[k] = 0 THEN 0 ELSE Len(orders[sources[k]])

\* the number of steps the sources before source k contribute
Offset(sources, k) ==
  SumTo([l \in 1 .. Len(sources) |-> Contribution(sources, l)], k - 1)

\* C18: new Order(sources) has the concatenation, in traversal order, of
\* the steps of the entries that are neither absent nor without steps;
\* new Order(single) has the steps of single, in order; new Order(),
\* new Order(null) and new Order(undefined) have no steps.
C18_ConstructorConcatenates ==
  /\ result.op = "new" => orders[result.id] = << >>
  /\ result.op = "copy" => orders[result.id] = orders[result.args[1]]
  /\ result.op = "merge" =>
       /\ Len(orders[result.id]) = Offset(result.args, Len(result.args) + 1)
       /\ \A k \in 1 .. Len(result.args) :
            \A i \in 1 .. Contribution(result.args, k) :
              orders[result.id][Offset(result.args, k) + i]
                = orders[result.args[k]][i]

C18_Witness ==
  /\ result.op = "merge"
  /\ Len(result.args) = 2
  /\ result.args[1] > result.args[2]
  /\ result.args[2] # 0
  /\ orders[result.args[1]] # orders[result.args[2]]
  /\ orders[result.id] = orders[result.args[1]] \o orders[result.args[2]]
  /\ Len(orders[result.id]) = 2

\* the list of steps without its i-th step
WithoutStep(steps, i) ==
  SubSeq(steps, 1, i - 1) \o SubSeq(steps, i + 1, Len(steps))

\* the call evaluated step i
Evaluated(i) == \E k \in 1 .. Len(clog) : clog[k][2] = i

\* C19: a step whose predicate is not satisfied by both a and b is a tie:
\* the call invokes neither its key nor its comparator, goes on to the next
\* step, and returns what the Order without that step returns.
C19_SkippedStepTies ==
  CompareReturned =>
    \A i \in 1 .. Len(order) :
      ~Applicable(order[i], ca, cb) =>
        /\ \A k \in 1 .. Len(clog) :
             clog[k][2] = i => clog[k][1] = "predicate"
        /\ (Evaluated(i) /\ i < Len(order)) => Evaluated(i + 1)
        /\ cret = Compare(WithoutStep(order, i), ca, cb)

C19_Witness ==
  /\ CompareReturned
  /\ Len(order) = 2
  /\ ~Applicable(order[1], ca, cb)
  /\ EvalPredicate(order[1].predicate, ca)
  /\ StepSign(order[1], ca, cb) = 1
  /\ StepSign(order[2], ca, cb) = -1
  /\ cret = -1
  /\ clog = << <<"predicate", 1, ca>>, <<"predicate", 1, cb>>,
               <<"key", 2, ca>>, <<"key", 2, cb>> >>

\* every custom comparator of a descending step answers a swapped pair of
\* keys with the opposite sign
AntisymmetricWhereDescending(steps) ==
  \A i \in 1 .. Len(steps) :
    (steps[i].compare # NoCompare /\ steps[i].direction = -1) =>
      \A x \in KeyValues, y \in KeyValues :
        Sign(CmpFn(steps[i].compare, x, y))
          = -Sign(CmpFn(steps[i].compare, y, x))

NonZero == {i \in 1 .. Len(order) : ComparatorApply(order[i], ca, cb) # 0}

\* the results the comparators of the list handed back to the loop, in order
Results == SelectSeq(clog, LAMBDA e : e[1] = "return")

\* C21: order(c1, ..., cn)(a, b) returns, unchanged, the result of the first
\* ci in argument order whose result is non-zero, and 0 if every ci returns 0
\* or n = 0; no comparator after that first one is invoked, and the ones
\* before it (order(alwaysZero, c)) do not change the result.
C21_FirstNonZero ==
  CompareReturned =>
    /\ \A k \in 1 .. Len(Results) : Results[k][2] = k
    /\ IF NonZero = {}
       THEN /\ cret = 0
            /\ Len(Results) = Len(order)
       ELSE /\ Len(Results) = Min(NonZero)
            /\ cret = ComparatorApply(order[Min(NonZero)], ca, cb)
            /\ cret = Results[Len(Results)][3]
            /\ \A k \in 1 .. Len(clog) : clog[k][2] <= Min(NonZero)
            /\ \A k \in 1 .. (Len(Results) - 1) : Results[k][3] = 0

C21_Witness ==
  /\ CompareReturned
  /\ Len(order) = 2
  /\ NonZero = {1, 2}
  /\ cret = -7
  /\ ComparatorApply(order[2], ca, cb) = 42
  /\ \A k \in 1 .. Len(clog) : clog[k][2] = 1

\* cmp of by(key, opts): opts.compare or, if absent, the natural comparator
NaturalOr(c, x, y) ==
  IF c # NoCompare THEN CmpFn(c, x, y)
  ELSE IF JsLt(x, y) THEN -1 ELSE IF JsGt(x, y) THEN 1 ELSE 0

\* the kinds of the functions comparator i invoked, in order
KindsOf(i) ==
  LET mine == SelectSeq(clog, LAMBDA e : e[2] = i /\ e[1] # "return")
  IN  [k \in 1 .. Len(mine) |-> mine[k][1]]

\* C22: by(key, opts)(a, b) is cmp(key(a), key(b)) for direction asc and
\* cmp(key(b), key(a)) for direction desc, cmp being opts.compare or the
\* natural comparator; with a predicate that a or b fails it is 0 and
\* neither key nor cmp is invoked.
C22_ByComparator ==
  \A k \in 1 .. Len(Results) :
    LET i == Results[k][2]
        s == order[i]
        x == ApplyPath(s.key, ca)
        y == ApplyPath(s.key, cb)
        guarded == s.predicate # NoPredicate
        both == EvalPredicate(s.predicate, ca) /\ EvalPredicate(s.predicate, cb)
    IN  IF guarded /\ ~both
        THEN /\ Results[k][3] = 0
             /\ \A j \in 1 .. Len(KindsOf(i)) : KindsOf(i)[j] = "predicate"
        ELSE /\ Results[k][3] = IF s.direction = 1
                                THEN NaturalOr(s.compare, x, y)
                                ELSE NaturalOr(s.compare, y, x)
             /\ KindsOf(i) = (IF guarded THEN <<"predicate", "predicate">>
                              ELSE << >>) \o <<"key", "key", "compare">>

C22_Witness ==
  /\ CompareReturned
  /\ Len(order) = 1
  /\ order[1].direction = -1
  /\ order[1].compare = "scaled"
  /\ order[1].predicate # NoPredicate
  /\ ApplyPath(order[1].key, ca) = 0
  /\ ApplyPath(order[1].key, cb) = 1
  /\ KindsOf(1) = <<"predicate", "predicate", "key", "key", "compare">>
  /\ cret = 7

\* comparator i of the list is when(g, cmp)
IsWhen(i) == Wrapped(order[i]) /\ order[i].wrap = "when"

\* a and b both satisfy the guard of comparator i
BothMatch(i) == PredFn(order[i].guard, ca) /\ PredFn(order[i].guard, cb)

\* C23: when(p, cmp)(a, b) returns cmp(a, b) if p(a) and p(b) both hold, and
\* otherwise returns 0 without invoking cmp; order(when(p, cmp), next)(a, b)
\* is next(a, b) for every pair of which an element fails p.
C23_WhenDelegates ==
  /\ \A k \in 1 .. Len(Results) :
       LET i == Results[k][2]
       IN  IsWhen(i) =>
             IF BothMatch(i)
             THEN /\ Results[k][3] = ComparatorBy(order[i].cmp, ca, cb)
                  /\ Len(KindsOf(i)) > 2
                  /\ KindsOf(i)[3] = "cmp"
             ELSE /\ Results[k][3] = 0
                  /\ KindsOf(i) = <<"guard", "guard">>
  /\ (CompareReturned /\ Len(order) = 2 /\ IsWhen(1) /\ ~BothMatch(1)) =>
       cret = ComparatorApply(order[2], ca, cb)

C23_Witness ==
  /\ CompareReturned
  /\ Len(order) = 2
  /\ IsWhen(1)
  /\ PredFn(order[1].guard, ca)
  /\ ~PredFn(order[1].guard, cb)
  /\ ComparatorBy(order[1].cmp, ca, cb) = -1
  /\ KindsOf(1) = <<"guard", "guard">>
  /\ ~Wrapped(order[2])
  /\ cret = 42

\* comparator i of the list is nullsFirst(cmp) or nullsLast(cmp)
IsNulls(i) == Wrapped(order[i]) /\ order[i].wrap \in {"nullsFirst", "nullsLast"}

\* C24: nullsFirst(cmp) and nullsLast(cmp) answer two nullish values (null
\* or undefined) with 0; a pair with exactly one nullish value with a result
\* that puts the nullish value first (nullsFirst) or last (nullsLast) and
\* changes sign when the arguments are swapped; cmp is invoked, with (a, b)
\* in that order, only when neither value is nullish.
C24_NullsFirstLast ==
  \A k \in 1 .. Len(Results) :
    LET i == Results[k][2]
        r == Results[k][3]
        nullishFirst == IF order[i].wrap = "nullsFirst" THEN -1 ELSE 1
    IN  IsNulls(i) =>
          IF Nullish(ca) /\ Nullish(cb)
          THEN r = 0 /\ KindsOf(i) = << >>
          ELSE IF Nullish(ca) \/ Nullish(cb)
          THEN /\ Sign(r) = IF Nullish(ca) THEN nullishFirst ELSE -nullishFirst
               /\ Sign(ComparatorApply(order[i], cb, ca)) = -Sign(r)
               /\ KindsOf(i) = << >>
          ELSE /\ r = ComparatorBy(order[i].cmp, ca, cb)
               /\ \E j \in 1 .. Len(clog) : clog[j] = <<"cmp", i, ca>>

C24_Witness ==
  /\ CompareReturned
  /\ Len(order) = 2
  /\ IsNulls(1)
  /\ IsNulls(2)
  /\ order[1].wrap = "nullsLast"
  /\ order[2].wrap = "nullsFirst"
  /\ ca = Null
  /\ cb = Undef
  /\ cret = 0
  /\ Len(Results) = 2

\* the logged call of the comparator call threw ("<": the relational
\* operators of a step without a comparator)
EntryRaises(e) ==
  LET s == order[e[2]]
  IN  IF e[1] = "<"
      THEN RelationalRaises(ApplyPath(s.key, ca), ApplyPath(s.key, cb))
      ELSE CallRaises(s, e, ca, cb)

\* the relational operators of a step the comparator call compared by throw
ComparedRaises(i) ==
  /\ order[i].compare = NoCompare
  /\ \E k \in 1 .. Len(clog) : clog[k][1] = "key" /\ clog[k][2] = i
  /\ \A k \in 1 .. Len(clog) : clog[k][2] = i => ~EntryRaises(clog[k])
  /\ RelationalRaises(ApplyPath(order[i].key, ca), ApplyPath(order[i].key, cb))

\* a predicate or a key the sort call invoked on an element threw
InvokedRaises ==
  \E j \in 1 .. Len(predCalls) : \E i \in 1 .. Len(heap[1]) :
    \/ predCalls[j][i] > 0 /\ PredicateRaises(order[j].predicate, heap[1][i])
    \/ keyCalls[j][i] > 0 /\ PathRaises(order[j].key, heap[1][i])

\* the index comparator throws on every pair of distinct positions
EveryPairRaises ==
  /\ Len(heap[1]) > 1
  /\ \A ia \in 1 .. Len(heap[1]), ib \in 1 .. Len(heap[1]) :
       ia # ib => IndexCompareRaisesFrom(keysPerStep, predicateMatchesPerStep,
                                         order, 1, ia, ib)

\* the index comparator throws on some pair of positions
SomePairRaises ==
  \E ia \in 1 .. Len(heap[1]), ib \in 1 .. Len(heap[1]) :
    IndexCompareRaisesFrom(keysPerStep, predicateMatchesPerStep, order, 1,
                           ia, ib)

\* what holds of a call that was abandoned and of one that returned
RaiseReachesCaller ==
  /\ cpc = "thrown" =>
       /\ clog # << >>
       /\ EntryRaises(clog[Len(clog)])
       /\ \A k \in 1 .. (Len(clog) - 1) : ~EntryRaises(clog[k])
       /\ cret = 0
  /\ cpc = "returned" =>
       /\ \A k \in 1 .. Len(clog) : ~EntryRaises(clog[k])
       /\ \A i \in 1 .. Len(order) : ~ComparedRaises(i)
  /\ spc = "thrown" =>
       /\ ret = 0
       /\ Len(heap) = 1
       /\ arrayIndexes = << >>
       /\ InvokedRaises \/ (sj > Len(order) /\ SomePairRaises)
       /\ \A j \in 1 .. Len(predCalls) : \A i \in 1 .. Len(heap[1]) :
            predCalls[j][i] <= 1 /\ keyCalls[j][i] <= 1
  /\ spc = "returned" =>
       /\ ~InvokedRaises
       /\ arrayIndexes # << >> => ~EveryPairRaises

\* C25: when a key, compare or predicate function raises during
\* o.compare(a, b) or Order.sort(arr, o), the call is abandoned at that
\* call: it returns no value and no array, takes no further step (nothing
\* is retried, nothing is swallowed: a call that returns has invoked
\* nothing that raised), and the input array and the steps of the Order stay
\* as they were.
C25_RaisePropagates ==
  /\ []RaiseReachesCaller
  /\ [][/\ cpc # "thrown"
        /\ spc # "thrown"
        /\ order' = order
        /\ heap # << >> => heap'[1] = heap[1]]_vars

C25_Witness ==
  /\ spc = "thrown"
  /\ sj > Len(order)
  /\ Len(order) = 2
  /\ order[1].compare = "exact"
  /\ heap = << <<2, Undef, 0>> >>
  /\ engine = "merge"
  /\ ret = 0

\* no step has a custom comparator and no key or predicate function throws
DefaultComparisonOnly ==
  \A i \in 1 .. Len(order) :
    /\ order[i].compare = NoCompare
    /\ \A v \in RaiseElem :
         ~PathRaises(order[i].key, v) /\ ~PredicateRaises(order[i].predicate, v)

RECURSIVE CompareRaisesFrom(_, _, _, _)
\* the comparator throws on (a, b), from step i on
CompareRaisesFrom(steps, i, a, b) ==
  /\ i <= Len(steps)
  /\ \/ StepRaises(steps[i], i, a, b)
     \/ /\ StepOutcome(steps[i], a, b) = 0
        /\ CompareRaisesFrom(steps, i + 1, a, b)

\* the elements c with which o.compare(b, c) and o.compare(a, c) return
Comparable == {c \in RaiseElem : /\ ~CompareRaisesFrom(order, 1, cb, c)
                                 /\ ~CompareRaisesFrom(order, 1, ca, c)}

\* every step's predicate holds of v and every step's key of v is a number
AllKeysNumbers(v) ==
  \A i \in 1 .. Len(order) :
    /\ EvalPredicate(order[i].predicate, v)
    /\ ApplyPath(order[i].key, v) >= 0

\* C26 (as stated): with steps without a custom comparator, keys of any
\* type, mutually incomparable ones included, never cause an error, and
\* 'o.compare(a, b) <= 0' is total and transitive.
C26_TotalOrderAnyKeys ==
  DefaultComparisonOnly =>
    /\ cpc # "thrown"
    /\ spc # "thrown"
    /\ CompareReturned =>
         /\ cret <= 0 \/ Compare(order, cb, ca) <= 0
         /\ \A c \in Comparable :
              (cret <= 0 /\ Compare(order, cb, c) <= 0) =>
                Compare(order, ca, c) <= 0

\* C26 (amended): with steps without a custom comparator, only a symbol key
\* makes the relational operators raise; over the other keys, mutually
\* incomparable ones included, 'o.compare(a, b) <= 0' is total, and it is
\* transitive over the elements that satisfy the predicates of the steps and
\* whose keys are numbers.
C26_DefaultComparison ==
  DefaultComparisonOnly =>
    /\ \A k \in 1 .. Len(clog) :
         clog[k][1] = "<" =>
           \/ ApplyPath(order[clog[k][2]].key, ca) = Sym
           \/ ApplyPath(order[clog[k][2]].key, cb) = Sym
    /\ spc = "thrown" =>
         \E j \in 1 .. Len(keysPerStep) : \E i \in 1 .. Len(heap[1]) :
           keysPerStep[j][i] = Sym
    /\ CompareReturned =>
         /\ cret <= 0 \/ Compare(order, cb, ca) <= 0
         /\ \A c \in RaiseElem :
              (/\ AllKeysNumbers(ca)
               /\ AllKeysNumbers(cb)
               /\ AllKeysNumbers(c)
               /\ cret <= 0
               /\ Compare(order, cb, c) <= 0) =>
                Compare(order, ca, c) <= 0

C26_Witness ==
  /\ DefaultComparisonOnly
  /\ CompareReturned
  /\ Len(order) = 2
  /\ order[1].key = <<"half">>
  /\ order[2].key = <<"tag">>
  /\ ca = 1
  /\ cb = 2
  /\ AllKeysNumbers(ca)
  /\ AllKeysNumbers(cb)
  /\ cret = 1

\* the keys buffers with every unwritten slot holding the key of its element
Filled ==
  [j \in 1 .. Len(keysPerStep) |->
     [i \in 1 .. Len(heap[1]) |->
        IF keysPerStep[j][i] = Hole THEN ApplyPath(order[j].key, heap[1][i])
        ELSE keysPerStep[j][i]]]

\* the slots of step j a comparison may read: those of the elements that
\* satisfy its predicate
Readable(j, i) ==
  predicateMatchesPerStep[j] = << >> \/ predicateMatchesPerStep[j][i]

\* C27: in Order.sort the comparison of a step is applied only to keys that
\* the step's key function computed from elements satisfying the step's
\* predicate: the slots of those elements hold such keys, and what the
\* unfilled slots hold has no part in the result of the sort.
C27_HolesNeverCompared ==
  spc = "sorted" =>
    /\ \A j \in 1 .. Len(order) : \A i \in 1 .. Len(heap[1]) :
         /\ predicateMatchesPerStep[j] # << >> =>
              predicateMatchesPerStep[j][i]
                = EvalPredicate(order[j].predicate, heap[1][i])
         /\ IF Readable(j, i)
            THEN /\ keysPerStep[j][i] = ApplyPath(order[j].key, heap[1][i])
                 /\ keyCalls[j][i] = 1
            ELSE keysPerStep[j][i] = Hole
    /\ (\E j \in 1 .. Len(order) : order[j].predicate # NoPredicate) =>
         arrayIndexes = SortedIndexes(engine, Filled, predicateMatchesPerStep,
                                      order, Len(heap[1]))

C27_Witness ==
  /\ spc = "sorted"
  /\ Len(order) = 1
  /\ heap[1] = <<1, 0, 2>>
  /\ keysPerStep[1] = <<0, Hole, 1>>
  /\ order[1].direction = -1
  /\ arrayIndexes # <<1, 2, 3>>

\* the number of entries of array q that hold v
Occurrences(q, v) == Cardinality({k \in 1 .. Len(q) : q[k] = v})

\* the comparator of the Order is not a consistent ordering of the elements
\* of the array: it contradicts itself on a swapped pair or on a chain
InconsistentOnInput ==
  \E i \in 1 .. Len(heap[1]), j \in 1 .. Len(heap[1]), k \in 1 .. Len(heap[1]) :
    LET a == heap[1][i]
        b == heap[1][j]
        c == heap[1][k]
    IN  \/ Compare(order, a, b) # -Compare(order, b, a)
        \/ /\ Compare(order, a, b) <= 0
           /\ Compare(order, b, c) <= 0
           /\ Compare(order, a, c) > 0

\* C28: for every Order, those whose comparator is not a consistent ordering
\* included, Order.sort(arr, o) returns an array of the length of arr that
\* is a permutation of arr: every input position supplies exactly one
\* output entry.
C28_Permutation ==
  Returned =>
    /\ Len(heap[ret]) = Len(heap[1])
    /\ Len(ReturnedPositions) = Len(heap[1])
    /\ \A i \in 1 .. Len(heap[1]) :
         Cardinality({k \in 1 .. Len(heap[1]) : ReturnedPositions[k] = i}) = 1
    /\ \A k \in 1 .. Len(heap[1]) :
         heap[ret][k] = heap[1][ReturnedPositions[k]]
    /\ \A v \in ElemU : Occurrences(heap[ret], v) = Occurrences(heap[1], v)

C28_Witness ==
  /\ Returned
  /\ InconsistentOnInput
  /\ engine = "merge"
  /\ Len(heap[1]) = 3
  /\ order[1].compare = "always42"
  /\ heap[ret] # heap[1]
  /\ \A v \in ElemU : Occurrences(heap[ret], v) = Occurrences(heap[1], v)

\* Order.sort(array, steps) on the engine eng, from the call to the return
SortOf(eng, steps, array) ==
  IF Len(array) <= 1 \/ Len(steps) = 0 THEN array
  ELSE LET b == [j \in 1 .. Len(steps) |-> PrecomputeBuffers(steps[j], array)]
           keys == [j \in 1 .. Len(steps) |-> b[j].keys]
           matches == [j \in 1 .. Len(steps) |-> b[j].matches]
       IN  Materialize(array,
                       SortedIndexes(eng, keys, matches, steps, Len(array)))

\* the comparison of step s is a total preorder of the keys of the elements
\* of a: swapping the keys swaps the sign, and precedence is transitive
StepTotalPreorder(s, a) ==
  LET K == {ApplyPath(s.key, a[i]) : i \in 1 .. Len(a)}
      r == Tabulate([p \in K \X K |->
                       KeyOutcome(s.compare, s.direction, p[1], p[2])])
  IN  /\ \A x \in K, y \in K : r[<<x, y>>] = -r[<<y, x>>]
      /\ \A x \in K, y \in K, z \in K :
           (r[<<x, y>>] <= 0 /\ r[<<y, z>>] <= 0) => r[<<x, z>>] <= 0

\* no step has a predicate, every step's comparison is a total preorder
ConsistentOrder ==
  \A j \in 1 .. Len(order) :
    order[j].predicate = NoPredicate /\ StepTotalPreorder(order[j], heap[1])

\* C30: when no step has a predicate and every step's comparison is a total
\* preorder on its keys, sorting the array Order.sort returned again, by the
\* same Order, returns that array element for element.
C30_Idempotent ==
  (Returned /\ ConsistentOrder) =>
    SortOf(engine, order, heap[ret]) = heap[ret]

C30_Witness ==
  /\ Returned
  /\ ConsistentOrder
  /\ Len(order) = 2
  /\ order[1].compare = "scaled"
  /\ heap[1] = <<0, Undef, 2>>
  /\ heap[ret] = <<Undef, 2, 0>>
  /\ SortOf(engine, order, heap[1]) = heap[ret]

\* the guard v => h(v) && g(v)
Both(h, g) ==
  IF h = g THEN h
  ELSE IF h = "small" THEN "small&&even"
  ELSE "even&&small"

\* the conjuncts Order.when(g, Order.when(h, o)) is to evaluate on v for a
\* step of o with the predicate own: own first, then h, then g, none after
\* one that is false
NestedEvaluation(own, h, g, v) ==
  LET ownPart == ConjunctsEvaluated(own, v)
  IN  IF ~EvalPredicate(own, v) THEN ownPart
      ELSE IF ~PredFn(h, v) THEN ownPart \o <<h>>
      ELSE ownPart \o <<h, g>>

\* C29: nested guards conjoin: Order.when(g, Order.when(h, o)).compare(a, b)
\* = Order.when(v => h(v) && g(v), o).compare(a, b) for all guards g, h,
\* Orders o and elements a, b; the composed predicate of a step evaluates
\* the step's own predicate first, then h, then g, and nothing after one
\* that is false.
C29_NestedGuards ==
  result.op = "Order.when" =>
    \A h \in GuardNames : \A o \in Ids :
      LET g == result.fn
          nested == orders[result.id]
      IN  orders[result.args[1]] = StepsOf(StaticWhen(orders, h, o)) =>
            /\ SameCompare(nested, StepsOf(StaticWhen(orders, Both(h, g), o)))
            /\ Len(nested) = Len(orders[o])
            /\ \A i \in 1 .. Len(nested) : \A v \in ElemU :
                 ConjunctsEvaluated(nested[i].predicate, v)
                   = NestedEvaluation(orders[o][i].predicate, h, g, v)

C29_Witness ==
  /\ result.op = "Order.when"
  /\ result.fn = "even"
  /\ Len(orders) = 3
  /\ orders[2] = StepsOf(StaticWhen(orders, "small", 1))
  /\ result.args[1] = 2
  /\ Len(orders[1]) = 1
  /\ orders[1][1].predicate = Atom("pos")
  /\ orders[3][1].predicate = Atom("pos") \o Atom("small") \o Atom("even")
  /\ ConjunctsEvaluated(orders[3][1].predicate, 2) = <<"pos", "small">>
  /\ Compare(orders[1], 1, 2) # 0
  /\ Compare(orders[3], 1, 2) = 0

====
